---- MODULE Spec2Model ----
(***************************************************************************)
(* A model of the read-only FAT32 reader in src/fat32: the cached device,  *)
(* the FAT entry reader, the cluster and chain readers, the directory      *)
(* iterator, the file reader, path resolution, mount, and the borrows of   *)
(* the shared filesystem cell.                                             *)
(*                                                                         *)
(* Storage is modelled in cells.  A cell of a FAT sector or of a file      *)
(* cluster is one byte; a cell of a directory cluster is one 32-byte       *)
(* directory record (the unit Vec::cast regroups the chain's bytes into).  *)
(* Errors are strings named after io::ErrorKind.                           *)
(***************************************************************************)
EXTENDS Integers, Sequences, FiniteSets, TLC

VARIABLES
    disk,    \* the block device's content: [fat : cluster -> 4 bytes, data : cluster -> cells]
    cache,   \* CachedDevice.cache: cached logical sectors, sector number -> cells
    chain,   \* a read_chain call in progress, one loop iteration per step
    file,    \* a File handle and the outcome of the last call on it
    iter,    \* an EntryIter and the outcome of its last next()
    fs,      \* an open()/find() call and its outcome
    mnt,     \* a VFat::from call: the device it is given and its outcome
    cdev,    \* a CachedDevice used directly: its device, partition and last call
    call,    \* a fat_entry or read_cluster call on the VFat and its outcome
    sh       \* the Shared<VFat> cell, the live handles and the operation in progress

vars == <<disk, cache, chain, file, iter, fs, mnt, cdev, call, sh>>

(***************************************************************************)
(* Bounds of the model.                                                    *)
(***************************************************************************)
NumClusters == 3         \* data clusters 2 .. NumClusters + 1
EntriesPerSector == 2    \* FAT entries per logical sector
SectorsPerCluster == 2

(***************************************************************************)
(* Geometry: the fields VFat::from fills in.                               *)
(***************************************************************************)
FatEntrySize == 4
bytes_per_sector == FatEntrySize * EntriesPerSector
sectors_per_cluster == SectorsPerCluster
sectors_per_fat == (NumClusters + 2 + EntriesPerSector - 1) \div EntriesPerSector
fat_start_sector == 2
number_of_fats == 1
data_start_sector == fat_start_sector + number_of_fats * sectors_per_fat
root_dir_cluster == 2

cluster_size == sectors_per_cluster * bytes_per_sector

Clusters == 2 .. (NumClusters + 1)
FatIndex == 0 .. (sectors_per_fat * EntriesPerSector - 1)

Min(a, b) == IF a < b THEN a ELSE b

\* `let x = v; body`: v is evaluated once and the body sees its value.
LetIn(v, Body(_)) == CHOOSE y \in { Body(x) : x \in {v} } : TRUE

Zeros(n) == [i \in 1 .. n |-> 0]

RECURSIVE Flatten(_)
Flatten(ss) == IF ss = <<>> THEN <<>> ELSE Head(ss) \o Flatten(Tail(ss))

(***************************************************************************)
(* FAT words, little-endian.  v is the low 28 bits, hi the reserved high   *)
(* nibble.                                                                 *)
(***************************************************************************)
Word(v, hi) ==
    <<v % 256, (v \div 256) % 256, (v \div 65536) % 256, (v \div 16777216) + 16 * hi>>

FREE == 0
RESERVED_LOW == 1
DATA_MIN == 2
DATA_MAX == 268435439        \* 0xFFFFFEF
RESERVED_MIN == 268435440    \* 0xFFFFFF0
BAD == 268435447             \* 0xFFFFFF7
EOC_MIN == 268435448         \* 0xFFFFFF8
EOC_MAX == 268435455         \* 0xFFFFFFF

(***************************************************************************)
(* The underlying block device, seen in logical sectors (its sector size   *)
(* equals the partition's, so virtual_to_physical is the identity).        *)
(***************************************************************************)
FatSector(d, k) ==
    Flatten([e \in 1 .. EntriesPerSector |-> d.fat[k * EntriesPerSector + e - 1]])

DataSector(d, k) ==
    LET c == (k \div sectors_per_cluster) + 2
        j == k % sectors_per_cluster
    IN  IF c \in DOMAIN d.data
        THEN SubSeq(d.data[c], j * bytes_per_sector + 1, (j + 1) * bytes_per_sector)
        ELSE Zeros(bytes_per_sector)

DeviceSector(d, n) ==
    IF n >= fat_start_sector /\ n < fat_start_sector + sectors_per_fat
    THEN FatSector(d, n - fat_start_sector)
    ELSE IF n >= data_start_sector
         THEN DataSector(d, n - data_start_sector)
         ELSE Zeros(bytes_per_sector)

(***************************************************************************)
(* CachedDevice: a sector is loaded on its first use and kept.             *)
(***************************************************************************)
reload_sector(c, d, sector) == (sector :> DeviceSector(d, sector)) @@ c

ensure_cached(c, d, sector) ==
    IF sector \in DOMAIN c THEN c ELSE reload_sector(c, d, sector)

CacheGet(c, d, sector) == ensure_cached(c, d, sector)[sector]

(***************************************************************************)
(* FatEntry::status: the classification of the low 28 bits.                *)
(***************************************************************************)
Low28(b) == b[1] + 256 * b[2] + 65536 * b[3] + 16777216 * (b[4] % 16)

\* A faulty status: the bad-cluster mark taken for an end-of-chain mark.
status_BadAsEoc(b) ==
    LET v == Low28(b)
    IN  CASE v = FREE -> [kind |-> "Free", val |-> 0]
          [] v = RESERVED_LOW -> [kind |-> "Reserved", val |-> 0]
          [] v >= DATA_MIN /\ v <= DATA_MAX -> [kind |-> "Data", val |-> v]
          [] v >= RESERVED_MIN /\ v < BAD -> [kind |-> "Reserved", val |-> 0]
          [] v >= BAD /\ v <= EOC_MAX -> [kind |-> "Eoc", val |-> v]
          [] OTHER -> [kind |-> "unreachable", val |-> 0]

status(b) ==
    LET v == Low28(b)
    IN  CASE v = FREE -> [kind |-> "Free", val |-> 0]
          [] v = RESERVED_LOW -> [kind |-> "Reserved", val |-> 0]
          [] v >= DATA_MIN /\ v <= DATA_MAX -> [kind |-> "Data", val |-> v]
          [] v >= RESERVED_MIN /\ v < BAD -> [kind |-> "Reserved", val |-> 0]
          [] v = BAD -> [kind |-> "Bad", val |-> 0]
          [] v >= EOC_MIN /\ v <= EOC_MAX -> [kind |-> "Eoc", val |-> v]
          [] OTHER -> [kind |-> "unreachable", val |-> 0]

(***************************************************************************)
(* VFat::fat_entry: the 4 bytes of a cluster's FAT entry.                  *)
(***************************************************************************)
\* A faulty fat_entry: the sector is fetched before the bound is checked.
fat_entry_GetFirst(c, d, cluster) ==
    LET offset_by_byte == cluster * FatEntrySize
        offset_by_sector == offset_by_byte \div bytes_per_sector
        nsector == offset_by_sector + fat_start_sector
        offset_in_sector == offset_by_byte % bytes_per_sector
    IN  IF offset_by_sector >= sectors_per_fat
        THEN [err |-> "NotFound", bytes |-> <<>>, cache |-> ensure_cached(c, d, nsector)]
        ELSE [err |-> "Ok",
              bytes |-> SubSeq(CacheGet(c, d, nsector),
                               offset_in_sector + 1, offset_in_sector + FatEntrySize),
              cache |-> ensure_cached(c, d, nsector)]

fat_entry(c, d, cluster) ==
    LET offset_by_byte == cluster * FatEntrySize
        offset_by_sector == offset_by_byte \div bytes_per_sector
        nsector == offset_by_sector + fat_start_sector
        offset_in_sector == offset_by_byte % bytes_per_sector
    IN  IF offset_by_sector >= sectors_per_fat
        THEN [err |-> "NotFound", bytes |-> <<>>, cache |-> c]
        ELSE [err |-> "Ok",
              bytes |-> SubSeq(CacheGet(c, d, nsector),
                               offset_in_sector + 1, offset_in_sector + FatEntrySize),
              cache |-> ensure_cached(c, d, nsector)]

(***************************************************************************)
(* VFat::read_cluster: up to len cells of a cluster from an offset.        *)
(***************************************************************************)
\* A faulty loop: a whole sector is copied whatever room the buffer has left.
RECURSIVE ReadSectors_WholeSector(_, _, _, _, _, _)
ReadSectors_WholeSector(c, d, nsector, data, total, len) ==
    IF Len(data) >= total
    THEN [data |-> data, cache |-> c]
    ELSE ReadSectors_WholeSector(ensure_cached(c, d, nsector), d, nsector + 1,
                                 data \o CacheGet(c, d, nsector), total, len)

RECURSIVE ReadSectors(_, _, _, _, _, _)
ReadSectors(c, d, nsector, data, total, len) ==
    \* while index < total { index += read_sector(nsector, &mut buf[index..]); nsector += 1 }
    IF Len(data) >= total
    THEN [data |-> data, cache |-> c]
    ELSE LET n == Min(bytes_per_sector, len - Len(data))
         IN  ReadSectors(ensure_cached(c, d, nsector), d, nsector + 1,
                         data \o SubSeq(CacheGet(c, d, nsector), 1, n), total, len)

\* A faulty read_cluster: the data region is taken to start at cluster 0.
read_cluster_FromClusterZero(c, d, cluster, offset, len) ==
    LET fe == fat_entry(c, d, cluster)
    IN  IF fe.err # "Ok"
        THEN [err |-> fe.err, n |-> 0, data |-> <<>>, cache |-> fe.cache]
        ELSE IF status(fe.bytes).kind = "Bad"
        THEN [err |-> "InvalidData", n |-> 0, data |-> <<>>, cache |-> fe.cache]
        ELSE IF cluster < 2
        THEN [err |-> "InvalidInput", n |-> 0, data |-> <<>>, cache |-> fe.cache]
        ELSE
        LET nsector == data_start_sector + cluster * sectors_per_cluster
                         + offset \div bytes_per_sector
            offset_in_sector == offset % bytes_per_sector
            until == Min(len + offset_in_sector, bytes_per_sector)
            first == SubSeq(CacheGet(fe.cache, d, nsector), offset_in_sector + 1, until)
            total == Min(sectors_per_cluster * bytes_per_sector - offset, len)
            rest == ReadSectors(ensure_cached(fe.cache, d, nsector), d, nsector + 1,
                                first, total, len)
        IN  [err |-> "Ok", n |-> total, data |-> rest.data, cache |-> rest.cache]

read_cluster(c, d, cluster, offset, len) ==
    LET fe == fat_entry(c, d, cluster)
    IN  IF fe.err # "Ok"
        THEN [err |-> fe.err, n |-> 0, data |-> <<>>, cache |-> fe.cache]
        ELSE IF status(fe.bytes).kind = "Bad"
        THEN [err |-> "InvalidData", n |-> 0, data |-> <<>>, cache |-> fe.cache]
        ELSE IF cluster < 2
        THEN [err |-> "InvalidInput", n |-> 0, data |-> <<>>, cache |-> fe.cache]
        ELSE
        LET nsector == data_start_sector + (cluster - 2) * sectors_per_cluster
                         + offset \div bytes_per_sector
            offset_in_sector == offset % bytes_per_sector
            until == Min(len + offset_in_sector, bytes_per_sector)
            first == SubSeq(CacheGet(fe.cache, d, nsector), offset_in_sector + 1, until)
            total == Min(sectors_per_cluster * bytes_per_sector - offset, len)
            rest == ReadSectors(ensure_cached(fe.cache, d, nsector), d, nsector + 1,
                                first, total, len)
        IN  [err |-> "Ok", n |-> total, data |-> rest.data, cache |-> rest.cache]

(***************************************************************************)
(* VFat::read_chain, one loop iteration at a time.  A call is the record   *)
(* [pc, start, cluster, index, buf, ret, steps]; cluster = NoCluster is    *)
(* the loop's None.                                                        *)
(***************************************************************************)
NoCluster == 0 - 1

ChainStepCap == NumClusters + 2

Resize(buf, n) ==
    IF Len(buf) >= n THEN SubSeq(buf, 1, n) ELSE buf \o Zeros(n - Len(buf))

NoRet == [err |-> "none", n |-> 0]

ChainIdle ==
    [pc |-> "idle", start |-> NoCluster, cluster |-> NoCluster, index |-> 0,
     buf |-> <<>>, ret |-> NoRet, steps |-> 0]

ChainCall(start, buf) ==
    [pc |-> "loop", start |-> start, cluster |-> start, index |-> 0,
     buf |-> buf, ret |-> NoRet, steps |-> 0]

ChainFail(ch, e, buf) ==
    [ch EXCEPT !.pc = "done", !.ret = [err |-> e, n |-> 0], !.buf = buf]

read_chain_step(ch, c, d) ==
    IF ch.cluster = NoCluster
    THEN [chain |-> [ch EXCEPT !.pc = "done", !.ret = [err |-> "Ok", n |-> ch.index]],
          cache |-> c]
    ELSE
    LetIn(fat_entry(c, d, ch.cluster), LAMBDA fe :
        IF fe.err # "Ok"
        THEN [chain |-> ChainFail(ch, fe.err, ch.buf), cache |-> fe.cache]
        ELSE
        LET st == status(fe.bytes)
        IN  IF st.kind \notin {"Data", "Eoc"}
            THEN [chain |-> ChainFail(ch, "InvalidData", ch.buf), cache |-> fe.cache]
            ELSE
            LetIn(Resize(ch.buf, ch.index + cluster_size), LAMBDA resized :
            LetIn(read_cluster(fe.cache, d, ch.cluster, 0, Len(resized) - ch.index),
                  LAMBDA rc :
                IF rc.err # "Ok"
                THEN [chain |-> ChainFail(ch, rc.err, resized), cache |-> rc.cache]
                ELSE [chain |->
                        [ch EXCEPT
                           !.buf = SubSeq(resized, 1, ch.index) \o rc.data
                                   \o SubSeq(resized, ch.index + rc.n + 1, Len(resized)),
                           !.index = ch.index + rc.n,
                           !.cluster = IF st.kind = "Data" THEN st.val ELSE NoCluster,
                           !.steps = ch.steps + 1],
                      cache |-> rc.cache])))

\* The whole call, for the callers that run it to completion (Dir::entries).
\* A walk that is still looping after ChainStepCap clusters is reported as
\* "Diverges": the loop has no other exit.
RECURSIVE read_chain_run(_, _, _)
read_chain_run(ch, c, d) ==
    IF ch.pc = "done" THEN [chain |-> ch, cache |-> c]
    ELSE IF ch.steps >= ChainStepCap
    THEN [chain |-> ChainFail(ch, "Diverges", ch.buf), cache |-> c]
    ELSE LET r == read_chain_step(ch, c, d) IN read_chain_run(r.chain, r.cache, d)

read_chain(c, d, start, buf) == read_chain_run(ChainCall(start, buf), c, d)

(***************************************************************************)
(* Idle values of the parts of the state a specification does not use.     *)
(***************************************************************************)
FileIdle == [pc |-> "idle"]
IterIdle == [pc |-> "idle"]
FsIdle == [pc |-> "idle"]
MntIdle == [pc |-> "idle"]
CdevIdle == [pc |-> "idle"]
CallIdle == [pc |-> "idle"]

\* Shared::new(vfat): the cell is free, no File, Dir or EntryIter handle is
\* live and no operation is in progress.
SharedNew ==
    [held |-> FALSE, handles |-> [k \in {"File", "Dir", "Iter"} |-> 0],
     op |-> "none", todo |-> <<>>, ret |-> "none", last |-> "none", panicked |-> FALSE]

(***************************************************************************)
(* Disk images.                                                            *)
(***************************************************************************)
\* What a formatted volume holds in the two reserved FAT entries.
FatReserved(i) == IF i = 0 THEN Word(EOC_MIN, 0) ELSE Word(EOC_MAX, 15)

\* The values a data cluster's FAT entry is drawn from.
FatChoices ==
    {Word(FREE, 0), Word(RESERVED_MIN, 0), Word(BAD, 0), Word(EOC_MIN, 0), Word(EOC_MAX, 15)}
    \cup {Word(n, 0) : n \in Clusters}
    \cup {Word(sectors_per_fat * EntriesPerSector, 0)}

MakeFat(f) ==
    [i \in FatIndex |-> IF i < 2 THEN FatReserved(i)
                        ELSE IF i \in Clusters THEN f[i] ELSE Word(FREE, 0)]

\* File data: every cell of the data region differs from its neighbours and
\* from the same cell of the other clusters.
PatternData == [c \in Clusters |-> [i \in 1 .. cluster_size |-> (c * 40 + i) % 256]]

(***************************************************************************)
(* SpecChain: read_chain(start, empty buf) over every FAT of the model.    *)
(***************************************************************************)
InitChain ==
    /\ \E f \in [Clusters -> FatChoices] : disk = [fat |-> MakeFat(f), data |-> PatternData]
    /\ cache = <<>>
    /\ \E start \in 0 .. (NumClusters + 2) : chain = ChainCall(start, <<>>)
    /\ file = FileIdle
    /\ iter = IterIdle
    /\ fs = FsIdle
    /\ mnt = MntIdle
    /\ cdev = CdevIdle
    /\ call = CallIdle
    /\ sh = SharedNew

ReadChainStep ==
    /\ chain.pc = "loop"
    /\ chain.steps < ChainStepCap
    /\ LET r == read_chain_step(chain, cache, disk)
       IN  chain' = r.chain /\ cache' = r.cache
    /\ UNCHANGED <<disk, file, iter, fs, mnt, cdev, call, sh>>

NextChain == ReadChainStep

SpecChain == InitChain /\ [][NextChain]_vars

\* The loop past ChainStepCap clusters.  The walk goes on as the code's does
\* (fat_entry, status, read_cluster, cluster = next); the model no longer
\* records the bytes appended to buf, so that chain.buf and chain.index keep
\* their values, and it counts the iterations past the cap modulo 2.
ReadChainStepBeyond ==
    /\ chain.pc = "loop"
    /\ chain.steps >= ChainStepCap
    /\ LET r == read_chain_step(chain, cache, disk)
       IN  /\ chain' = [r.chain EXCEPT
                          !.buf = chain.buf, !.index = chain.index,
                          !.steps = ChainStepCap + ((chain.steps - ChainStepCap + 1) % 2)]
           /\ cache' = r.cache
    /\ UNCHANGED <<disk, file, iter, fs, mnt, cdev, call, sh>>

NextChainLive == ReadChainStep \/ ReadChainStepBeyond

\* The loop of read_chain runs on for as long as it has an iteration to run.
SpecChainLive == InitChain /\ [][NextChainLive]_vars /\ WF_vars(NextChainLive)

(***************************************************************************)
(* What the claims about chains speak of, read off the FAT itself.         *)
(***************************************************************************)
FatWordKind(w) ==
    LET v == w[1] + 256 * w[2] + 65536 * w[3] + 16777216 * (w[4] % 16)
    IN  IF v = 0 THEN "Free"
        ELSE IF v = 1 \/ (v >= 268435440 /\ v <= 268435446) THEN "Reserved"
        ELSE IF v = 268435447 THEN "Bad"
        ELSE IF v >= 268435448 THEN "Eoc"
        ELSE "Data"

FatWordNext(w) == w[1] + 256 * w[2] + 65536 * w[3] + 16777216 * (w[4] % 16)

\* The clusters c1..ck of the chain from start, or <<>> when the walk does not
\* end in an Eoc entry within fuel links.
RECURSIVE ChainClusters(_, _, _)
ChainClusters(d, c, fuel) ==
    IF fuel = 0 \/ c \notin FatIndex \/ c < 2 THEN <<>>
    ELSE LET k == FatWordKind(d.fat[c])
         IN  IF k = "Eoc" THEN <<c>>
             ELSE IF k = "Data"
             THEN LET rest == ChainClusters(d, FatWordNext(d.fat[c]), fuel - 1)
                  IN  IF rest = <<>> THEN <<>> ELSE <<c>> \o rest
             ELSE <<>>

ValidChain(d, start) == ChainClusters(d, start, NumClusters + 1)

\* The walk from c reaches a Free, Reserved or Bad entry before any Eoc entry.
RECURSIVE ReachesErrorEntry(_, _, _)
ReachesErrorEntry(d, c, fuel) ==
    IF fuel = 0 \/ c \notin FatIndex THEN FALSE
    ELSE LET k == FatWordKind(d.fat[c])
         IN  IF k \in {"Free", "Reserved", "Bad"} THEN TRUE
             ELSE IF k = "Data" THEN ReachesErrorEntry(d, FatWordNext(d.fat[c]), fuel - 1)
             ELSE FALSE

ClusterData(d, cs) == Flatten([i \in 1 .. Len(cs) |-> d.data[cs[i]]])

\* C3: for a start cluster whose chain is c1..ck (k >= 1, Data links ended by
\* an Eoc entry), read_chain(start, empty buf) returns Ok(k * cluster_size)
\* and leaves buf equal to the data of c1, ..., ck in chain order.
C3_ReadChainConcatenates ==
    (chain.pc = "done" /\ chain.start >= 2 /\ ValidChain(disk, chain.start) # <<>>)
        => LET cs == ValidChain(disk, chain.start)
           IN  /\ chain.ret = [err |-> "Ok", n |-> Len(cs) * cluster_size]
               /\ Len(chain.buf) = Len(cs) * cluster_size
               /\ chain.buf = ClusterData(disk, cs)

C3_Witness ==
    /\ chain.pc = "done"
    /\ chain.ret.err = "Ok"
    /\ Len(ValidChain(disk, chain.start)) = 3
    /\ ValidChain(disk, chain.start)[2] < chain.start
    /\ chain.buf = ClusterData(disk, ValidChain(disk, chain.start))

\* C8: read_chain fails with InvalidData, and never returns Ok, when the walk
\* from start reaches a Free, Reserved or Bad entry before an Eoc entry.
C8_ErrorEntryIsInvalidData ==
    (chain.pc = "done" /\ chain.start >= 2
       /\ ReachesErrorEntry(disk, chain.start, NumClusters + 1))
        => chain.ret.err = "InvalidData"

C8_Witness ==
    /\ chain.pc = "done"
    /\ chain.start >= 2
    /\ FatWordKind(disk.fat[chain.start]) = "Data"
    /\ FatWordNext(disk.fat[chain.start]) \in Clusters
    /\ FatWordKind(disk.fat[FatWordNext(disk.fat[chain.start])]) = "Bad"
    /\ chain.index = cluster_size
    /\ chain.ret.err = "InvalidData"

\* C22: read_chain comes to an end, with Ok or with an error, for every
\* start cluster and every FAT content, FATs whose Data links form a cycle
\* included.
C22_ReadChainTerminates == <>(chain.pc = "done")

(***************************************************************************)
(* Directory records.  A raw record (VFatDirEntry, a union of three        *)
(* layouts) is kept as the fields the iterator reads: the regular view's   *)
(* name (name[1] is byte 0, the unknown and LFN views' seq_num), extension,*)
(* attributes, first-cluster halves and size, and the LFN view's 13 code   *)
(* units.                                                                  *)
(***************************************************************************)
LfnSlots == 31          \* 0x1F
LfnUnits == 13
END_OF_DIR == 0         \* 0x00
DELETED == 229          \* 0xE5
SPACE == 32             \* 0x20
LFN_MASK == 15          \* READ_ONLY | HIDDEN | SYSTEM | VOLUME_ID
DIRECTORY == 16
ARCHIVE == 32
SEQ_MASK == 32          \* raw_seq_num & 0b00011111 is raw_seq_num % 32
UNIT_END == 65535       \* 0xFFFF
REPLACEMENT == 65533    \* U+FFFD

Pad(bytes, n) == bytes \o [i \in 1 .. (n - Len(bytes)) |-> SPACE]

\* The LFN view of a regular record's bytes 1..10: name[2..8] and the
\* extension, as five little-endian code units; the other eight units lie
\* over the time, date, cluster and size fields.
OverlayUnits(name, ext, hi, size) ==
    LET b == SubSeq(name, 2, 8) \o ext
    IN  [j \in 1 .. 5 |-> b[2 * j - 1] + 256 * b[2 * j]]
        \o <<0, 0, 0, hi, 0, 0>> \o <<size % 65536, size \div 65536>>

RegularRecord(name, ext, attr, cluster, size) ==
    [name |-> Pad(name, 8), ext |-> Pad(ext, 3), attr |-> attr,
     hi |-> cluster \div 65536, lo |-> cluster % 65536, size |-> size,
     chars |-> OverlayUnits(Pad(name, 8), Pad(ext, 3), cluster \div 65536, size)]

LfnRecord(seq, units) ==
    [name |-> <<seq>> \o Zeros(7), ext |-> Zeros(3), attr |-> LFN_MASK,
     hi |-> 0, lo |-> 0, size |-> 0,
     chars |-> units \o [i \in 1 .. (LfnUnits - Len(units)) |->
                           IF i = 1 THEN 0 ELSE UNIT_END]]

EndRecord == RegularRecord(Zeros(8), Zeros(3), 0, 0, 0)

Deleted(r) == [r EXCEPT !.name[1] = DELETED]

(***************************************************************************)
(* Attributes: each test is `self.0 & MASK == MASK`.                       *)
(***************************************************************************)
lfn(attr) == attr % 16 = LFN_MASK

directory(attr) == (attr \div DIRECTORY) % 2 = 1

(***************************************************************************)
(* String::from_utf16_lossy and String::from_utf8_lossy, to code points.   *)
(***************************************************************************)
IsHighSurrogate(u) == u >= 55296 /\ u <= 56319
IsLowSurrogate(u) == u >= 56320 /\ u <= 57343

RECURSIVE from_utf16_lossy(_)
from_utf16_lossy(us) ==
    IF us = <<>> THEN <<>>
    ELSE IF IsHighSurrogate(us[1]) /\ Len(us) >= 2 /\ IsLowSurrogate(us[2])
    THEN <<65536 + (us[1] - 55296) * 1024 + (us[2] - 56320)>>
         \o from_utf16_lossy(SubSeq(us, 3, Len(us)))
    ELSE IF IsHighSurrogate(us[1]) \/ IsLowSurrogate(us[1])
    THEN <<REPLACEMENT>> \o from_utf16_lossy(Tail(us))
    ELSE <<us[1]>> \o from_utf16_lossy(Tail(us))

\* One- and two-byte sequences decode; any other byte is replaced.  (The
\* names of the model hold no lead byte of a three- or four-byte sequence.)
RECURSIVE from_utf8_lossy(_)
from_utf8_lossy(bs) ==
    IF bs = <<>> THEN <<>>
    ELSE IF bs[1] < 128 THEN <<bs[1]>> \o from_utf8_lossy(Tail(bs))
    ELSE IF bs[1] >= 194 /\ bs[1] <= 223 /\ Len(bs) >= 2 /\ bs[2] >= 128 /\ bs[2] <= 191
    THEN <<(bs[1] - 192) * 64 + (bs[2] - 128)>> \o from_utf8_lossy(SubSeq(bs, 3, Len(bs)))
    ELSE <<REPLACEMENT>> \o from_utf8_lossy(Tail(bs))

RECURSIVE TakeWhileNot(_, _)
TakeWhileNot(xs, stops) ==
    IF xs = <<>> \/ xs[1] \in stops THEN <<>>
    ELSE <<xs[1]>> \o TakeWhileNot(Tail(xs), stops)

(***************************************************************************)
(* EntryIter.  [raw, pos, lfn] is the iterator: pos is the index of the    *)
(* record raw_entries.next() yields next, lfn the scratchpad (NoLfn is     *)
(* None).                                                                  *)
(***************************************************************************)
NoLfn == <<>>

EmptyLfn == [s \in 1 .. LfnSlots |-> Zeros(LfnUnits)]

\* lfn.into_iter().flatten().take_while(..): the slots in order, up to the
\* first terminating unit.
RECURSIVE LfnNameUnits(_, _)
LfnNameUnits(pad, s) ==
    IF s > LfnSlots THEN <<>>
    ELSE LET t == TakeWhileNot(pad[s], {0, UNIT_END})
         IN  IF Len(t) < LfnUnits THEN t ELSE t \o LfnNameUnits(pad, s + 1)

ShortName(r) ==
    LET name == TakeWhileNot(r.name, {0, SPACE})
        extension == TakeWhileNot(r.ext, {0, SPACE})
    IN  IF extension # <<>>
        THEN from_utf8_lossy(name) \o <<46>> \o from_utf8_lossy(extension)
        ELSE from_utf8_lossy(name)

\* A faulty scratchpad write: every LFN record starts from an empty scratchpad.
WriteLfnSlot_Fresh(pad, seq_num, r) == [EmptyLfn EXCEPT ![seq_num] = r.chars]

WriteLfnSlot(pad, seq_num, r) ==
    LET p == IF pad = NoLfn THEN EmptyLfn ELSE pad
    IN  [p EXCEPT ![seq_num] = r.chars]

FileName(pad, r) ==
    IF pad # NoLfn THEN from_utf16_lossy(LfnNameUnits(pad, 1)) ELSE ShortName(r)

NoItem == [kind |-> "None", name |-> <<>>, first_cluster |-> 0, size |-> 0,
           attr |-> 0, at |-> 0]

PanicItem == [NoItem EXCEPT !.kind = "Panic"]

EmitEntry(pad, r, at) ==
    [kind |-> IF directory(r.attr) THEN "Dir" ELSE "File",
     name |-> FileName(pad, r),
     first_cluster |-> r.hi * 65536 + r.lo,
     size |-> IF directory(r.attr) THEN 0 ELSE r.size,
     attr |-> r.attr,
     at |-> at]

RECURSIVE EntryIterNext(_, _, _)
EntryIterNext(raw, pos, pad) ==
    IF pos > Len(raw)
    THEN [pos |-> pos, lfn |-> pad, item |-> NoItem]
    ELSE
    LET entry == raw[pos]
        raw_seq_num == entry.name[1]
    IN  IF raw_seq_num = END_OF_DIR
        THEN [pos |-> pos + 1, lfn |-> pad, item |-> NoItem]
        ELSE IF raw_seq_num = DELETED
        THEN EntryIterNext(raw, pos + 1, pad)
        ELSE IF lfn(entry.attr)
        THEN LET seq_num == raw_seq_num % SEQ_MASK
             IN  IF ~(seq_num >= 1 /\ seq_num <= LfnSlots)
                 THEN [pos |-> pos + 1, lfn |-> pad, item |-> PanicItem]
                 ELSE EntryIterNext(raw, pos + 1, WriteLfnSlot(pad, seq_num, entry))
        ELSE [pos |-> pos + 1, lfn |-> NoLfn, item |-> EmitEntry(pad, entry, pos)]

(***************************************************************************)
(* SpecDir: next() called again and again on an EntryIter over every       *)
(* directory of DirLen records drawn from DirRecords.                      *)
(***************************************************************************)
DirLen == 4

\* The 13 code units of the s-th group of a long name, lower-case letters.
GroupUnits(s) == [j \in 1 .. LfnUnits |-> 97 + (((s - 1) * LfnUnits + j - 1) % 26)]

LAST_LFN == 64          \* bit 6 of seq_num: the last logical LFN record

DirRecords ==
    { EndRecord,
      Deleted(RegularRecord(<<79, 76, 68>>, <<>>, ARCHIVE, 3, 7)),
      RegularRecord(<<65>>, <<84, 88, 84>>, ARCHIVE, 3, 5),
      RegularRecord(<<68>>, <<>>, DIRECTORY, 4, 0),
      RegularRecord(<<46, 46>>, <<>>, DIRECTORY, 0, 0),      \* "..", of a child of the root
      RegularRecord(<<66>>, <<>>, ARCHIVE + LFN_MASK, 3, 5),
      LfnRecord(1, GroupUnits(1)),
      LfnRecord(LAST_LFN + 1, GroupUnits(1)),
      LfnRecord(2, GroupUnits(2)),
      LfnRecord(LAST_LFN + 2, <<233, 55296>>),
      LfnRecord(LAST_LFN, <<118>>) }

IterStart(raw) ==
    [pc |-> "iter", raw |-> raw, pos |-> 1, lfn |-> NoLfn, item |-> NoItem,
     calls |-> 0, ended |-> FALSE]

InitDir ==
    /\ disk = [fat |-> MakeFat([c \in Clusters |-> Word(EOC_MIN, 0)]), data |-> PatternData]
    /\ cache = <<>>
    /\ chain = ChainIdle
    /\ file = FileIdle
    /\ \E raw \in [1 .. DirLen -> DirRecords] : iter = IterStart(raw)
    /\ fs = FsIdle
    /\ mnt = MntIdle
    /\ cdev = CdevIdle
    /\ call = CallIdle
    /\ sh = SharedNew

\* One call of next().  ended records that an earlier call returned None.
IterNext ==
    /\ iter.pc = "iter"
    /\ iter.calls <= DirLen
    /\ LET r == EntryIterNext(iter.raw, iter.pos, iter.lfn)
       IN  iter' = [iter EXCEPT
                      !.pc = IF r.item.kind = "Panic" THEN "panicked" ELSE "iter",
                      !.pos = r.pos, !.lfn = r.lfn, !.item = r.item,
                      !.calls = iter.calls + 1,
                      !.ended = iter.ended \/ (iter.calls > 0 /\ iter.item.kind = "None")]
    /\ UNCHANGED <<disk, cache, chain, file, fs, mnt, cdev, call, sh>>

NextDir == IterNext

SpecDir == InitDir /\ [][NextDir]_vars

(***************************************************************************)
(* What the claims about directories speak of, read off the raw records.   *)
(***************************************************************************)
FirstByte(r) == r.name[1]

LiveRecord(r) == FirstByte(r) # 0 /\ FirstByte(r) # 229

\* A record the iterator takes for a long-filename record.
TakenAsLfn(r) == LiveRecord(r) /\ r.attr % 16 = 15

IsLfnRecord(r) == LiveRecord(r) /\ r.attr = 15

IsEmitted(item) == item.kind \in {"File", "Dir"}

SeqOf(r) == FirstByte(r) % 32

\* The first index of the run of LFN records that ends right before p.
RECURSIVE RunStart(_, _)
RunStart(raw, p) ==
    IF p > 1 /\ IsLfnRecord(raw[p - 1]) THEN RunStart(raw, p - 1) ELSE p

\* The k LFN records before p carry the sequence numbers 1..k, once each,
\* bit 6 set on the one with sequence number k.
LfnGroupBefore(raw, p) ==
    LET q == RunStart(raw, p)
        k == p - q
    IN  /\ k >= 1
        /\ \A s \in 1 .. k : \E i \in q .. (p - 1) : SeqOf(raw[i]) = s
        /\ \E i \in q .. (p - 1) : SeqOf(raw[i]) = k /\ (FirstByte(raw[i]) \div 64) % 2 = 1

GroupOf(raw, p, s) ==
    raw[CHOOSE i \in RunStart(raw, p) .. (p - 1) : SeqOf(raw[i]) = s].chars

\* The name the claim gives: groups 1..k, cut at the first 0x0000 or 0xFFFF.
GroupName(raw, p) ==
    from_utf16_lossy(
        TakeWhileNot(Flatten([s \in 1 .. (p - RunStart(raw, p)) |-> GroupOf(raw, p, s)]),
                     {0, 65535}))

\* A record taken as an LFN record with a sequence number above k lies
\* before the group with no regular record between it and the group.
StaleSlotBefore(raw, p) ==
    LET q == RunStart(raw, p)
        k == p - q
    IN  \E i \in 1 .. (q - 1) :
            /\ TakenAsLfn(raw[i])
            /\ SeqOf(raw[i]) > k
            /\ \A j \in (i + 1) .. (q - 1) : ~LiveRecord(raw[j]) \/ TakenAsLfn(raw[j])

\* Every record with the four low attribute bits set is an LFN record.
PlainAttributes(raw) == \A i \in 1 .. Len(raw) : raw[i].attr % 16 = 15 => raw[i].attr = 15

\* C4 as claimed (on directories of plain attributes): the name of the entry
\* emitted for a regular record that k LFN records with the sequence numbers
\* {1..k} precede is the decoding of groups 1..k cut at the first
\* 0x0000/0xFFFF, whatever records come earlier in the directory.
C4_LfnNameWhateverEarlier ==
    (IsEmitted(iter.item) /\ PlainAttributes(iter.raw)
       /\ LfnGroupBefore(iter.raw, iter.item.at))
        => iter.item.name = GroupName(iter.raw, iter.item.at)

\* C4 as amended: the same, provided no record taken as an LFN record with a
\* sequence number above k lies between the previous regular record (or the
\* start of the directory) and the group.
C4_LfnNameOfGroup ==
    (IsEmitted(iter.item) /\ LfnGroupBefore(iter.raw, iter.item.at)
       /\ ~StaleSlotBefore(iter.raw, iter.item.at))
        => iter.item.name = GroupName(iter.raw, iter.item.at)

\* Two LFN records in descending record order, after an earlier entry.
C4_Witness ==
    /\ IsEmitted(iter.item)
    /\ iter.item.at = 4
    /\ LiveRecord(iter.raw[1]) /\ ~TakenAsLfn(iter.raw[1])
    /\ LfnGroupBefore(iter.raw, 4)
    /\ RunStart(iter.raw, 4) = 2
    /\ SeqOf(iter.raw[2]) = 2
    /\ Len(iter.item.name) = LfnUnits + 2
    /\ iter.item.name = GroupName(iter.raw, 4)

\* C5: no entry is produced from the first 0x00 record or from a record
\* after it, and once next() has returned None every later next() that
\* returns, returns None.
C5_EndRecordEndsIteration ==
    /\ IsEmitted(iter.item)
         => \A i \in 1 .. iter.item.at : FirstByte(iter.raw[i]) # 0
    /\ (iter.ended /\ iter.pc # "panicked") => iter.item.kind = "None"

(***************************************************************************)
(* File: seek and read.  i64::MAX is scaled to MaxI64 (the model's         *)
(* integers are narrower than the program's); u64::MAX is scaled alike.    *)
(* An i64 addition that overflows panics in a build with overflow checks   *)
(* and wraps in one without.                                               *)
(***************************************************************************)
MaxI64 == 1023
MinI64 == 0 - MaxI64 - 1
MaxU64 == 2 * MaxI64 + 1

\* The outcome of the last call on the handle; seek and read fill in err and
\* n, the actions the argument and the position before the call.
NoSeek == [from |-> "none", off |-> 0]
SeekRet(e, n) == [op |-> "seek", err |-> e, n |-> n, pos |-> NoSeek, buflen |-> 0, before |-> 0]
ReadRet(e, n) == [op |-> "read", err |-> e, n |-> n, pos |-> NoSeek, buflen |-> 0, before |-> 0]
NoCall == [op |-> "none", err |-> "none", n |-> 0, pos |-> NoSeek, buflen |-> 0, before |-> 0]

\* self.size as i64 + offset, or self.offset as i64 + offset.
AddI64(f, base, off) ==
    IF base + off > MaxI64
    THEN IF f.overflow_checks
         THEN [panic |-> TRUE, v |-> 0]
         ELSE [panic |-> FALSE, v |-> base + off - (MaxU64 + 1)]
    ELSE [panic |-> FALSE, v |-> base + off]

\* The end of seek, from `if offset > self.size as u64`.
SeekTo(f, offset) ==
    IF offset > f.size
    THEN [f EXCEPT !.last = SeekRet("InvalidInput", 0)]
    ELSE [f EXCEPT !.offset = offset, !.last = SeekRet("Ok", offset)]

seek(f, pos) ==
    IF pos.from = "Start" THEN SeekTo(f, pos.off)
    ELSE LET sum == AddI64(f, IF pos.from = "End" THEN f.size ELSE f.offset, pos.off)
         IN  IF sum.panic
             THEN [f EXCEPT !.pc = "panicked", !.last = SeekRet("panic", 0)]
             ELSE IF sum.v < 0
             THEN [f EXCEPT !.last = SeekRet("InvalidInput", 0)]
             ELSE SeekTo(f, sum.v)

\* File::read into a buffer of buflen bytes: the new handle, the bytes put
\* in the buffer and the cache.
read(f, c, d, buflen) ==
    LET cluster == f.offset \div cluster_size
        offset_in_cluster == f.offset % cluster_size
        available_bytes == f.size - f.offset
        len == Min(available_bytes, buflen)
        rc == read_cluster(c, d, cluster, offset_in_cluster, len)
    IN  IF rc.err # "Ok"
        THEN [file |-> [f EXCEPT !.last = ReadRet(rc.err, 0)], data |-> <<>>,
              cache |-> rc.cache]
        ELSE LET g == seek(f, [from |-> "Current", off |-> rc.n])
             IN  [file |-> IF g.last.err = "Ok"
                           THEN [g EXCEPT !.last = ReadRet("Ok", rc.n)]
                           ELSE [g EXCEPT !.last = ReadRet(g.last.err, 0)],
                  data |-> rc.data, cache |-> rc.cache]

(***************************************************************************)
(* SpecFile: seeks and reads on a file whose chain is any sequence of      *)
(* distinct clusters, in either build.  since and got record, for the      *)
(* claims, the position of the last successful seek and the bytes the      *)
(* reads returned after it.                                                *)
(***************************************************************************)
ChainOrders ==
    {s \in UNION {[1 .. n -> Clusters] : n \in 1 .. NumClusters} :
        \A i, j \in 1 .. Len(s) : i # j => s[i] # s[j]}

FatOfChain(s) ==
    [c \in Clusters |->
        IF \E i \in 1 .. Len(s) : s[i] = c
        THEN LET i == CHOOSE i \in 1 .. Len(s) : s[i] = c
             IN  IF i = Len(s) THEN Word(EOC_MAX, 0) ELSE Word(s[i + 1], 0)
        ELSE Word(FREE, 0)]

FileSizes(n) == {(n - 1) * cluster_size + 1, n * cluster_size - 1, n * cluster_size}

FileOpen(first_cluster, size, checks) ==
    [pc |-> "open", size |-> size, first_cluster |-> first_cluster, offset |-> 0,
     overflow_checks |-> checks, last |-> NoCall, since |-> 0, got |-> <<>>]

InitFile ==
    /\ \E s \in ChainOrders :
         /\ disk = [fat |-> MakeFat(FatOfChain(s)), data |-> PatternData]
         /\ \E size \in FileSizes(Len(s)), checks \in BOOLEAN :
              file = FileOpen(s[1], size, checks)
    /\ cache = <<>>
    /\ chain = ChainIdle
    /\ iter = IterIdle
    /\ fs = FsIdle
    /\ mnt = MntIdle
    /\ cdev = CdevIdle
    /\ call = CallIdle
    /\ sh = SharedNew

SeekArgs(f) ==
    {[from |-> "Start", off |-> o] :
        o \in {0, 1, 2 * cluster_size, f.size, f.size + 1, MaxU64}}
    \cup {[from |-> "End", off |-> o] :
        o \in {MinI64, 0 - f.size - 1, 0 - f.size, 0 - 1, 0, 1, MaxI64}}
    \cup {[from |-> "Current", off |-> o] :
        o \in {MinI64, 0 - f.offset - 1, 0, cluster_size, MaxI64}}

BufLens == {bytes_per_sector + 1, 2 * cluster_size}

Seek ==
    /\ file.pc = "open"
    /\ \E pos \in SeekArgs(file) :
         LET g == seek(file, pos)
         IN  file' = [g EXCEPT !.last.pos = pos, !.last.before = file.offset,
                               !.since = IF g.last.err = "Ok" THEN g.offset ELSE file.since,
                               !.got = IF g.last.err = "Ok" THEN <<>> ELSE file.got]
    /\ UNCHANGED <<disk, cache, chain, iter, fs, mnt, cdev, call, sh>>

Read ==
    /\ file.pc = "open"
    /\ \E buflen \in BufLens :
         LET r == read(file, cache, disk, buflen)
         IN  /\ file' = [r.file EXCEPT !.last.buflen = buflen, !.last.before = file.offset,
                                       !.got = file.got \o r.data]
             /\ cache' = r.cache
    /\ UNCHANGED <<disk, chain, iter, fs, mnt, cdev, call, sh>>

NextFile == Seek \/ Read

SpecFile == InitFile /\ [][NextFile]_vars

(***************************************************************************)
(* What the claims about files speak of.                                   *)
(***************************************************************************)
\* Byte i of the file is byte (i mod cluster_size) of the cluster reached by
\* following floor(i / cluster_size) links from first_cluster.
FileBytes(d, f) == SubSeq(ClusterData(d, ValidChain(d, f.first_cluster)), 1, f.size)

\* C1: after a seek to o, reads with a non-empty buffer until one returns 0
\* all succeed, and the bytes they return are the file's bytes [o, size).
C1_ReadsReturnFileBytes ==
    /\ file.last.op = "read" => file.last.err = "Ok"
    /\ file.got = SubSeq(FileBytes(disk, file), file.since + 1, file.since + Len(file.got))
    /\ (file.last.op = "read" /\ file.last.err = "Ok" /\ file.last.n = 0)
         => file.since + Len(file.got) = file.size

SeekTarget(f) ==
    CASE f.last.pos.from = "Start" -> f.last.pos.off
      [] f.last.pos.from = "End" -> f.size + f.last.pos.off
      [] f.last.pos.from = "Current" -> f.last.before + f.last.pos.off

\* C7: seek(pos) sets the position to target and returns Ok(target) when
\* 0 <= target <= size, else returns InvalidInput and leaves the position;
\* so 0 <= position <= size after every seek and read.
C7_SeekContract ==
    /\ file.last.op = "seek"
         => IF SeekTarget(file) >= 0 /\ SeekTarget(file) <= file.size
            THEN /\ file.offset = SeekTarget(file)
                 /\ file.last.err = "Ok"
                 /\ file.last.n = SeekTarget(file)
            ELSE /\ file.last.err = "InvalidInput"
                 /\ file.offset = file.last.before
    /\ file.offset >= 0 /\ file.offset <= file.size

(***************************************************************************)
(* Dir::entries and Dir::find.  A Dir or File handle is the entry record   *)
(* EmitEntry builds; the root is Dir::root_from_vfat.                      *)
(***************************************************************************)
RootDir ==
    [kind |-> "Dir", name |-> <<>>, first_cluster |-> root_dir_cluster, size |-> 0,
     attr |-> DIRECTORY, at |-> 0]

FsRet(e, entry, c) == [err |-> e, entry |-> entry, cache |-> c]

\* u8::eq_ignore_ascii_case on every byte: only A-Z and a-z fold.
AsciiLower(ch) == IF ch >= 65 /\ ch <= 90 THEN ch + 32 ELSE ch

eq_ignore_ascii_case(a, b) ==
    /\ Len(a) = Len(b)
    /\ \A i \in 1 .. Len(a) : AsciiLower(a[i]) = AsciiLower(b[i])


\* for entry in self.entries()? { if entry.name().eq_ignore_ascii_case(name) .. }
RECURSIVE FindIn(_, _, _, _, _)
FindIn(raw, pos, pad, name, c) ==
    LetIn(EntryIterNext(raw, pos, pad), LAMBDA r :
        IF r.item.kind = "None" THEN FsRet("NotFound", NoItem, c)
        ELSE IF r.item.kind = "Panic" THEN FsRet("panic", NoItem, c)
        ELSE IF eq_ignore_ascii_case(r.item.name, name) THEN FsRet("Ok", r.item, c)
        ELSE FindIn(raw, r.pos, r.lfn, name, c))

\* Dir::entries: the chain's cells, regrouped into records by buf.cast().
entries(c, d, dir) ==
    LetIn(read_chain(c, d, dir.first_cluster, <<>>), LAMBDA r :
        [err |-> r.chain.ret.err, raw |-> r.chain.buf, cache |-> r.cache])

find(c, d, dir, name) ==
    LetIn(entries(c, d, dir), LAMBDA es :
        IF es.err # "Ok" THEN FsRet(es.err, NoItem, es.cache)
        ELSE FindIn(es.raw, 1, NoLfn, name, es.cache))

(***************************************************************************)
(* Path::components and FileSystem::open.  A path is whether it starts     *)
(* with a separator and its segments between separators; a segment is a    *)
(* name, "." or "..".                                                      *)
(***************************************************************************)
DOT == <<46>>
DOTDOT == <<46, 46>>

Component(kind, name) == [kind |-> kind, name |-> name]

\* std::path::Components: "." is dropped except at the start of a path that
\* has no root.
RECURSIVE SegmentComponents(_, _)
SegmentComponents(segs, atStart) ==
    IF segs = <<>> THEN <<>>
    ELSE LET rest == SegmentComponents(Tail(segs), FALSE)
         IN  IF Head(segs) = DOT
             THEN IF atStart THEN <<Component("CurDir", DOT)>> \o rest ELSE rest
             ELSE IF Head(segs) = DOTDOT
             THEN <<Component("ParentDir", DOTDOT)>> \o rest
             ELSE <<Component("Normal", Head(segs))>> \o rest

components(path) ==
    IF path.rooted
    THEN <<Component("RootDir", <<>>)>> \o SegmentComponents(path.segs, FALSE)
    ELSE SegmentComponents(path.segs, TRUE)

\* The while loop of open: `comps` is what the components iterator has left.
\* A faulty loop: a file match is returned whatever components remain.
RECURSIVE OpenLoop_FileAnywhere(_, _, _, _)
OpenLoop_FileAnywhere(c, d, current_dir, comps) ==
    IF comps = <<>> THEN FsRet("Ok", current_dir, c)
    ELSE IF Head(comps).kind = "Normal"
    THEN LetIn(find(c, d, current_dir, Head(comps).name), LAMBDA m :
             IF m.err # "Ok" THEN m
             ELSE IF m.entry.kind = "Dir"
             THEN OpenLoop_FileAnywhere(m.cache, d, m.entry, Tail(comps))
             ELSE m)
    ELSE FsRet("InvalidInput", NoItem, c)

RECURSIVE OpenLoop(_, _, _, _)
OpenLoop(c, d, current_dir, comps) ==
    IF comps = <<>> THEN FsRet("Ok", current_dir, c)
    ELSE IF Head(comps).kind = "Normal"
    THEN LetIn(find(c, d, current_dir, Head(comps).name), LAMBDA m :
             IF m.err # "Ok" THEN m
             ELSE IF m.entry.kind = "Dir" THEN OpenLoop(m.cache, d, m.entry, Tail(comps))
             ELSE IF Tail(comps) # <<>> THEN FsRet("InvalidInput", NoItem, m.cache)
             ELSE m)
    ELSE FsRet("InvalidInput", NoItem, c)

\* A faulty open: a path with no root component is resolved from the root.
open_AnyStart(c, d, path) ==
    LET comps == components(path)
    IN  OpenLoop(c, d, RootDir,
                 IF comps # <<>> /\ Head(comps).kind = "RootDir" THEN Tail(comps) ELSE comps)

open(c, d, path) ==
    LET comps == components(path)
    IN  IF comps = <<>> \/ Head(comps).kind # "RootDir"
        THEN FsRet("InvalidInput", NoItem, c)
        ELSE OpenLoop(c, d, RootDir, Tail(comps))

(***************************************************************************)
(* SpecOpen: open and find called on small directory trees.  The root      *)
(* directory (cluster 2) holds RootDirLen records drawn from RootRecords;  *)
(* the sub-directory D (cluster 3) holds ".", "..", the empty file A.TXT   *)
(* and the empty directory E (cluster 4).  A directory cluster is one      *)
(* record per cell, padded with 0x00 records.                              *)
(***************************************************************************)
RootDirLen == 2
MaxPathLen == 2

SubDirCluster == root_dir_cluster + 1
LeafDirCluster == SubDirCluster + 1

\* The names the trees and the calls use.
Names ==
    [D |-> <<68>>,                       \* "D"
     E |-> <<69>>,                       \* "E"
     A |-> <<65>>,                       \* "A", with the extension "TXT"
     TXT |-> <<84, 88, 84>>,
     LowerD |-> <<100>>,                 \* "d"
     LowerATxt |-> <<97, 46, 116, 120, 116>>,   \* "a.txt"
     Accented |-> <<233, 98>>,           \* "éb", stored as a long name
     AccentedUpper |-> <<201, 66>>,      \* "ÉB"
     Missing |-> <<88>>]                 \* "X", in no directory

RootRecords ==
    { EndRecord,
      Deleted(RegularRecord(<<79, 76, 68>>, <<>>, ARCHIVE, 0, 0)),
      RegularRecord(Names.A, Names.TXT, ARCHIVE, 0, 0),
      RegularRecord(Names.D, <<>>, DIRECTORY, SubDirCluster, 0),
      RegularRecord(Names.LowerD, <<>>, ARCHIVE, 0, 0),
      LfnRecord(LAST_LFN + 1, Names.Accented) }

SubDirRecords ==
    << RegularRecord(DOT, <<>>, DIRECTORY, SubDirCluster, 0),
       RegularRecord(DOTDOT, <<>>, DIRECTORY, 0, 0),
       RegularRecord(Names.A, Names.TXT, ARCHIVE, 0, 0),
       RegularRecord(Names.E, <<>>, DIRECTORY, LeafDirCluster, 0) >>

DirCluster(records) ==
    [i \in 1 .. cluster_size |-> IF i <= Len(records) THEN records[i] ELSE EndRecord]

TreeImage(root) ==
    [fat |-> MakeFat([c \in Clusters |-> Word(EOC_MAX, 0)]),
     data |-> [c \in Clusters |->
                 IF c = root_dir_cluster THEN DirCluster(root)
                 ELSE IF c = SubDirCluster THEN DirCluster(SubDirRecords)
                 ELSE DirCluster(<<>>)]]

PathSegs == { Names.D, Names.LowerATxt, Names.E, Names.Missing, DOT, DOTDOT }

SeqsUpTo(S, n) == UNION { [1 .. k -> S] : k \in 0 .. n }

\* Absolute paths of up to MaxPathLen segments, and the relative paths of at
\* most one segment (open looks at nothing after a first component that is not
\* the root).
Paths ==
    [rooted : {TRUE}, segs : SeqsUpTo(PathSegs, MaxPathLen)]
        \cup [rooted : {FALSE}, segs : SeqsUpTo(PathSegs, 1)]

FindNames ==
    { Names.D, Names.LowerD, Names.A \o DOT \o Names.TXT, Names.LowerATxt,
      Names.Accented, Names.AccentedUpper, Names.Missing }

FsCall(op, path, dir, name, r) ==
    [pc |-> "done", op |-> op, path |-> path, dir |-> dir, name |-> name,
     err |-> r.err, entry |-> r.entry]

NoPath == [rooted |-> FALSE, segs |-> <<>>]

InitOpen ==
    /\ \E root \in [1 .. RootDirLen -> RootRecords] : disk = TreeImage(root)
    /\ cache = <<>>
    /\ chain = ChainIdle
    /\ file = FileIdle
    /\ iter = IterIdle
    /\ fs = FsIdle
    /\ mnt = MntIdle
    /\ cdev = CdevIdle
    /\ call = CallIdle
    /\ sh = SharedNew

Open ==
    /\ fs.pc = "idle"
    /\ \E path \in Paths :
        LET r == open(cache, disk, path)
        IN  /\ fs' = FsCall("open", path, RootDir, <<>>, r)
            /\ cache' = r.cache
            /\ UNCHANGED <<disk, chain, file, iter, mnt, cdev, call, sh>>

\* find on the root directory.
Find ==
    /\ fs.pc = "idle"
    /\ \E name \in FindNames :
        LET r == find(cache, disk, RootDir, name)
        IN  /\ fs' = FsCall("find", NoPath, RootDir, name, r)
            /\ cache' = r.cache
            /\ UNCHANGED <<disk, chain, file, iter, mnt, cdev, call, sh>>

\* The caller drops the returned entry; the cache stays as the call left it.
DropEntry ==
    /\ fs.pc = "done"
    /\ fs' = FsIdle
    /\ UNCHANGED <<disk, cache, chain, file, iter, mnt, cdev, call, sh>>

NextOpen == Open \/ Find \/ DropEntry

SpecOpen == InitOpen /\ [][NextOpen]_vars

(***************************************************************************)
(* Claims about open and find.                                             *)
(***************************************************************************)
\* The root directory open is said to start from.
SyntheticRoot ==
    [kind |-> "Dir", name |-> <<>>, first_cluster |-> root_dir_cluster, size |-> 0,
     attr |-> DIRECTORY, at |-> 0]

IsNormalName(seg) == seg # DOT /\ seg # DOTDOT

\* Left-to-right resolution of normal names with find, as the contract of open
\* words it.
RECURSIVE Resolve(_, _, _)
Resolve(d, cur, names) ==
    IF names = <<>> THEN [err |-> "Ok", entry |-> cur]
    ELSE LET m == find(<<>>, d, cur, Head(names))
         IN  IF m.err # "Ok" THEN [err |-> m.err, entry |-> NoItem]
             ELSE IF m.entry.kind = "Dir" THEN Resolve(d, m.entry, Tail(names))
             ELSE IF Tail(names) = <<>> THEN [err |-> "Ok", entry |-> m.entry]
             ELSE [err |-> "InvalidInput", entry |-> NoItem]

OpenReturned == fs.pc = "done" /\ fs.op = "open"

\* C2: for an absolute path whose components after the root are normal names,
\* open starts at the synthetic root directory and resolves the names left to
\* right with find: a directory match becomes the current directory, a file
\* match on the last name is returned, a file match with names remaining is
\* InvalidInput, a name with no match is NotFound, and when the names are used
\* up ("/" included) the current directory is returned.
C2_OpenResolvesLeftToRight ==
    (/\ OpenReturned
     /\ fs.path.rooted
     /\ \A i \in 1 .. Len(fs.path.segs) : IsNormalName(fs.path.segs[i]))
    => LET r == Resolve(disk, SyntheticRoot, fs.path.segs)
       IN  fs.err = r.err /\ fs.entry = r.entry

\* "/D/E" returned the directory E, found through the directory D.
C2_Witness ==
    /\ OpenReturned
    /\ fs.path = [rooted |-> TRUE, segs |-> <<Names.D, Names.E>>]
    /\ fs.err = "Ok"
    /\ fs.entry.kind = "Dir"
    /\ fs.entry.first_cluster = LeafDirCluster

\* char::to_uppercase and char::to_lowercase on the letters of Latin-1.
UnicodeUpper(ch) ==
    IF (ch >= 97 /\ ch <= 122) \/ (ch >= 224 /\ ch <= 254 /\ ch # 247) THEN ch - 32 ELSE ch

UnicodeLower(ch) ==
    IF (ch >= 65 /\ ch <= 90) \/ (ch >= 192 /\ ch <= 222 /\ ch # 215) THEN ch + 32 ELSE ch

uppercase(n) == [i \in 1 .. Len(n) |-> UnicodeUpper(n[i])]
lowercase(n) == [i \in 1 .. Len(n) |-> UnicodeLower(n[i])]

EqualIgnoringCase(a, b) == lowercase(a) = lowercase(b)

\* The entries of a directory, in directory order.
RECURSIVE ListFrom(_, _, _)
ListFrom(raw, pos, pad) ==
    LET r == EntryIterNext(raw, pos, pad)
    IN  IF r.item.kind \in {"None", "Panic"} THEN <<>>
        ELSE <<r.item>> \o ListFrom(raw, r.pos, r.lfn)

Listing(d, dir) == ListFrom(entries(<<>>, d, dir).raw, 1, NoLfn)

FirstEqualIgnoringCase(list, n) ==
    list[CHOOSE i \in 1 .. Len(list) :
            /\ EqualIgnoringCase(list[i].name, n)
            /\ \A j \in 1 .. (i - 1) : ~EqualIgnoringCase(list[j].name, n)]

\* C6: for every entry of a directory, with decoded name n (non-ASCII letters
\* allowed), find(uppercase(n)) and find(lowercase(n)) both succeed and return
\* the first entry in directory order whose name equals n ignoring case.
C6_FindIgnoresCase ==
    (fs.pc = "done" /\ fs.op = "find")
    => LET list == Listing(disk, fs.dir)
       IN  \A i \in 1 .. Len(list) :
              fs.name \in {uppercase(list[i].name), lowercase(list[i].name)}
              => /\ fs.err = "Ok"
                 /\ fs.entry = FirstEqualIgnoringCase(list, list[i].name)

\* C9 as stated: open fails with InvalidInput and returns no entry whenever the
\* path does not begin with the root component or a component after the root
\* is not a normal name.
C9_NonNormalIsInvalidInput ==
    LET comps == components(fs.path)
    IN  (/\ OpenReturned
         /\ \/ comps = <<>>
            \/ Head(comps).kind # "RootDir"
            \/ \E i \in 2 .. Len(comps) : comps[i].kind # "Normal")
        => fs.err = "InvalidInput" /\ fs.entry = NoItem

FirstParentDir(segs) ==
    CHOOSE i \in 1 .. Len(segs) :
        segs[i] = DOTDOT /\ \A j \in 1 .. (i - 1) : segs[j] # DOTDOT

WithoutCurDir(segs) == SelectSeq(segs, LAMBDA seg : seg # DOT)

\* C9, amended: open fails with InvalidInput and returns no entry when the
\* path does not begin with the root component.  When a component after the
\* root is not a normal name open fails and returns no entry: the components
\* before it are resolved first, so the error is InvalidInput when each of
\* them matched an entry, and otherwise the error of the lookup that failed
\* (NotFound for a name with no match).
C9_NonNormalOutcome ==
    OpenReturned
    => LET segs == fs.path.segs
       IN  /\ ~fs.path.rooted => fs.err = "InvalidInput" /\ fs.entry = NoItem
           /\ (fs.path.rooted /\ \E i \in 1 .. Len(segs) : segs[i] = DOTDOT)
              => LET before == WithoutCurDir(SubSeq(segs, 1, FirstParentDir(segs) - 1))
                     r == Resolve(disk, SyntheticRoot, before)
                 IN  /\ fs.entry = NoItem
                     /\ fs.err = IF r.err \in {"Ok", "InvalidInput"}
                                 THEN "InvalidInput" ELSE r.err

\* "/X/.." with no X in the root directory: NotFound.
C9_Witness ==
    /\ OpenReturned
    /\ fs.path = [rooted |-> TRUE, segs |-> <<Names.Missing, DOTDOT>>]
    /\ fs.err = "NotFound"

(***************************************************************************)
(* Mounting: MasterBootRecord::from, first_fat32_partition,                *)
(* BiosParameterBlock::from, CachedDevice::new and VFat::from.  A device   *)
(* is its physical sector size, what read_sector(0) returns, the MBR's     *)
(* signature and partition table, and the two sectors partitions may start *)
(* at, each with what reading it returns and the fields mount looks at.    *)
(***************************************************************************)
SECTOR_BYTES == 512               \* let mut buf = [0u8; 512]
MBR_SIGNATURE == <<85, 170>>      \* [0x55, 0xAA]
BPB_SIGNATURE == 43605            \* 0xAA55
BOOT_NO == 0
BOOT_ACTIVE == 128                \* 0x80
FAT32_CHS == 11                   \* 0xB
FAT32_LBA == 12                   \* 0xC
PartitionCount == 4               \* partition_table: [PartitionEntry; 4]

MountRet(kind, detail, v) == [kind |-> kind, detail |-> detail, vfat |-> v]

NoVFat == [start |-> 0, bytes_per_sector |-> 0]

\* What device.read_sector(n, buf) gives for a 512-byte buf: an error, fewer
\* bytes than asked for, or all of them.
ReadErr == "Err"
ReadShort == "Short"
ReadFull == "Full"

MasterBootRecord_from(device) ==
    IF device.read0 = ReadErr THEN MountRet("Io", "DeviceError", NoVFat)
    ELSE IF device.read0 # ReadFull THEN MountRet("Io", "UnexpectedEof", NoVFat)
    ELSE IF device.mbr.signature # MBR_SIGNATURE THEN MountRet("BadSignature", 0, NoVFat)
    ELSE LET bad == { i \in 1 .. PartitionCount :
                        device.mbr.partition_table[i].boot_indicator
                            \notin {BOOT_NO, BOOT_ACTIVE} }
         IN  IF bad # {}
             THEN MountRet("UnknownBootIndicator",
                           (CHOOSE i \in bad : \A j \in bad : i <= j) - 1, NoVFat)
             ELSE MountRet("Ok", 0, NoVFat)

\* A faulty selection: the last matching entry of the table.
last_partition_of(mbr, types) ==
    LET hits == { i \in 1 .. PartitionCount : mbr.partition_table[i].partition_type \in types }
    IN  IF hits = {} THEN 0 ELSE CHOOSE i \in hits : \A j \in hits : i >= j

\* The first entry of the table whose type is one of `types`; 0 for None.
first_partition_of(mbr, types) ==
    LET hits == { i \in 1 .. PartitionCount : mbr.partition_table[i].partition_type \in types }
    IN  IF hits = {} THEN 0 ELSE CHOOSE i \in hits : \A j \in hits : i <= j

first_fat32_partition(mbr) == first_partition_of(mbr, {FAT32_CHS, FAT32_LBA})

BiosParameterBlock_from(device, sector) ==
    LET boot == device.boot[sector]
    IN  IF boot.read_sector = ReadErr THEN MountRet("Io", "DeviceError", NoVFat)
        ELSE IF boot.read_sector # ReadFull THEN MountRet("Io", "UnexpectedEof", NoVFat)
        ELSE IF boot.bootable_partition_signature # BPB_SIGNATURE
        THEN MountRet("BadSignature", 0, NoVFat)
        ELSE MountRet("Ok", 0, NoVFat)

\* assert!(partition.sector_size >= device.sector_size())
CachedDevice_new(device, partition) ==
    IF partition.sector_size >= device.sector_size
    THEN [err |-> "Ok", partition |-> partition]
    ELSE [err |-> "panic", partition |-> partition]

VFat_from(device) ==
    LET m == MasterBootRecord_from(device)
    IN  IF m.kind # "Ok" THEN m
        ELSE
        LET fat32 == first_fat32_partition(device.mbr)
        IN  IF fat32 = 0 THEN MountRet("NotFound", 0, NoVFat)
            ELSE
            LET entry == device.mbr.partition_table[fat32]
                b == BiosParameterBlock_from(device, entry.relative_sector)
            IN  IF b.kind # "Ok" THEN b
                ELSE
                LET bpb == device.boot[entry.relative_sector]
                    cached_device ==
                        CachedDevice_new(device, [start |-> entry.relative_sector,
                                                  sector_size |-> bpb.bytes_per_sector])
                IN  IF cached_device.err # "Ok" THEN MountRet("panic", 0, NoVFat)
                    ELSE MountRet("Ok", 0,
                                  [start |-> cached_device.partition.start,
                                   bytes_per_sector |-> bpb.bytes_per_sector])

(***************************************************************************)
(* SpecMount: VFat::from on every device of the family below.              *)
(***************************************************************************)
\* The two sectors a partition of the family starts at.
PartitionStarts == <<1, 2>>

PartitionEntry(boot_indicator, partition_type, relative_sector) ==
    [boot_indicator |-> boot_indicator, partition_type |-> partition_type,
     relative_sector |-> relative_sector]

\* A FAT32 partition of each type, a partition of another type (0x83), and
\* two entries with an unknown boot indicator (0x01, 0x7F).
PartitionEntries ==
    { PartitionEntry(BOOT_NO, FAT32_CHS, PartitionStarts[1]),
      PartitionEntry(BOOT_ACTIVE, FAT32_LBA, PartitionStarts[2]),
      PartitionEntry(BOOT_NO, FAT32_CHS * FAT32_LBA - 1, PartitionStarts[1]),
      PartitionEntry(BOOT_NO + 1, FAT32_CHS, PartitionStarts[2]),
      PartitionEntry(BOOT_ACTIVE - 1, BOOT_NO, PartitionStarts[1]) }

BootSector(outcome, signature, bps) ==
    [read_sector |-> outcome, bootable_partition_signature |-> signature,
     bytes_per_sector |-> bps]

\* A good boot sector of 512 and of 1024 bytes per sector, one with a wrong
\* signature, one whose read comes back short and one whose read fails.
BootSectors ==
    { BootSector(ReadFull, BPB_SIGNATURE, SECTOR_BYTES),
      BootSector(ReadFull, BPB_SIGNATURE, 2 * SECTOR_BYTES),
      BootSector(ReadFull, BPB_SIGNATURE \div 2, SECTOR_BYTES),
      BootSector(ReadShort, BPB_SIGNATURE, SECTOR_BYTES),
      BootSector(ReadErr, BPB_SIGNATURE, SECTOR_BYTES) }

Devices ==
    [sector_size : {SECTOR_BYTES, 2 * SECTOR_BYTES},
     read0 : {ReadErr, ReadShort, ReadFull},
     mbr : [signature : {MBR_SIGNATURE, <<MBR_SIGNATURE[2], MBR_SIGNATURE[1]>>},
            partition_table : [1 .. PartitionCount -> PartitionEntries]],
     boot : [{PartitionStarts[1], PartitionStarts[2]} -> BootSectors]]

InitMount ==
    /\ disk = [fat |-> MakeFat([c \in Clusters |-> Word(EOC_MIN, 0)]), data |-> PatternData]
    /\ cache = <<>>
    /\ chain = ChainIdle
    /\ file = FileIdle
    /\ iter = IterIdle
    /\ fs = FsIdle
    /\ \E device \in Devices : mnt = [pc |-> "idle", device |-> device]
    /\ cdev = CdevIdle
    /\ call = CallIdle
    /\ sh = SharedNew

Mount ==
    /\ mnt.pc = "idle"
    /\ mnt' = [pc |-> "done", device |-> mnt.device, result |-> VFat_from(mnt.device)]
    /\ UNCHANGED <<disk, cache, chain, file, iter, fs, cdev, call, sh>>

NextMount == Mount

SpecMount == InitMount /\ [][NextMount]_vars

(***************************************************************************)
(* Claims about mounting.                                                  *)
(***************************************************************************)
Table == mnt.device.mbr.partition_table

BadBootIndicators == { i \in 1 .. PartitionCount : Table[i].boot_indicator \notin {0, 128} }

Fat32Partitions == { i \in 1 .. PartitionCount : Table[i].partition_type \in {11, 12} }

Lowest(S) == CHOOSE i \in S : \A j \in S : i <= j

ChosenBoot == mnt.device.boot[Table[Lowest(Fat32Partitions)].relative_sector]

Mounted ==
    MountRet("Ok", 0, [start |-> Table[Lowest(Fat32Partitions)].relative_sector,
                       bytes_per_sector |-> ChosenBoot.bytes_per_sector])

\* C10 as stated, on devices whose reads return no error: mount fails with the
\* first failing check of: sector 0 read short -> Io(UnexpectedEof); MBR
\* signature -> BadSignature; boot indicator -> UnknownBootIndicator(lowest
\* index); no FAT32 partition -> NotFound; boot sector signature of the lowest
\* FAT32 partition -> BadSignature; and it succeeds with that partition when
\* all of them pass.
C10_MountCheckOrder ==
    (/\ mnt.pc = "done"
     /\ mnt.device.read0 # ReadErr
     /\ \A b \in DOMAIN mnt.device.boot : mnt.device.boot[b].read_sector # ReadErr)
    => mnt.result =
         IF mnt.device.read0 = ReadShort THEN MountRet("Io", "UnexpectedEof", NoVFat)
         ELSE IF mnt.device.mbr.signature # <<85, 170>> THEN MountRet("BadSignature", 0, NoVFat)
         ELSE IF BadBootIndicators # {}
         THEN MountRet("UnknownBootIndicator", Lowest(BadBootIndicators) - 1, NoVFat)
         ELSE IF Fat32Partitions = {} THEN MountRet("NotFound", 0, NoVFat)
         ELSE IF ChosenBoot.bootable_partition_signature # 43605
         THEN MountRet("BadSignature", 0, NoVFat)
         ELSE Mounted

\* C10, amended: the checks of the statement, in its order, with three more: a
\* failed read of sector 0 or of the boot sector is Io with the device's
\* error; a short read of the boot sector is Io(UnexpectedEof), checked before
\* the boot sector's signature; and after every check has passed mount panics
\* when the boot sector's bytes_per_sector is less than the device's sector
\* size, and succeeds with that partition otherwise.
C10_MountOutcome ==
    mnt.pc = "done"
    => mnt.result =
         IF mnt.device.read0 = ReadErr THEN MountRet("Io", "DeviceError", NoVFat)
         ELSE IF mnt.device.read0 = ReadShort THEN MountRet("Io", "UnexpectedEof", NoVFat)
         ELSE IF mnt.device.mbr.signature # <<85, 170>> THEN MountRet("BadSignature", 0, NoVFat)
         ELSE IF BadBootIndicators # {}
         THEN MountRet("UnknownBootIndicator", Lowest(BadBootIndicators) - 1, NoVFat)
         ELSE IF Fat32Partitions = {} THEN MountRet("NotFound", 0, NoVFat)
         ELSE IF ChosenBoot.read_sector = ReadErr THEN MountRet("Io", "DeviceError", NoVFat)
         ELSE IF ChosenBoot.read_sector = ReadShort THEN MountRet("Io", "UnexpectedEof", NoVFat)
         ELSE IF ChosenBoot.bootable_partition_signature # 43605
         THEN MountRet("BadSignature", 0, NoVFat)
         ELSE IF ChosenBoot.bytes_per_sector < mnt.device.sector_size
         THEN MountRet("panic", 0, NoVFat)
         ELSE Mounted

\* Every check passed on a device whose first FAT32 partition is the third
\* entry of the table, and the boot sector's bytes_per_sector is less than the
\* device's sector size.
C10_Witness ==
    /\ mnt.pc = "done"
    /\ mnt.device.read0 = ReadFull
    /\ mnt.device.mbr.signature = <<85, 170>>
    /\ BadBootIndicators = {}
    /\ Fat32Partitions # {}
    /\ Lowest(Fat32Partitions) = 3
    /\ ChosenBoot.read_sector = ReadFull
    /\ ChosenBoot.bootable_partition_signature = 43605
    /\ ChosenBoot.bytes_per_sector < mnt.device.sector_size
    /\ mnt.result.kind = "panic"

(***************************************************************************)
(* CachedDevice over a device whose sectors may be smaller than the        *)
(* partition's logical sectors.  The medium behind the BlockDevice is      *)
(* outside the program: a physical sector past its end is an I/O error,    *)
(* its content may change between two reads (epoch), and one sector (bad)  *)
(* may be unreadable until the medium changes.                             *)
(***************************************************************************)
MaxVirt == 1         \* virtual sectors 0 .. MaxVirt are requested
MaxPhysical == 2     \* device.sector_size() is in 1 .. MaxPhysical
MaxLogical == MaxPhysical + 2    \* partition.sector_size is in 1 .. MaxLogical
PhysSectors == 2 * MaxVirt + 2   \* the device has sectors 0 .. PhysSectors - 1
MODIFIED == 255      \* the byte a caller stores through get_mut / write_sector

PhysicalSector(device, n) ==
    [i \in 1 .. device.sector_size |->
        2 * (n * device.sector_size + i - 1) + device.epoch]

\* self.device.read_sector(n, buf) with a buf of one physical sector
device_read_sector(device, n) ==
    IF n < device.sectors /\ ~(n = device.bad /\ device.epoch = 0)
    THEN [err |-> "Ok", data |-> PhysicalSector(device, n)]
    ELSE [err |-> "Io", data |-> <<>>]

virtual_to_physical(cd, virt) ==
    IF cd.device.sector_size = cd.partition.sector_size
    THEN [sector |-> virt, number |-> 1]
    ELSE IF virt < cd.partition.start
         THEN [sector |-> virt, number |-> 1]
         ELSE
         LET factor == cd.partition.sector_size \div cd.device.sector_size
             logical_offset == virt - cd.partition.start
             physical_offset == logical_offset * factor
             physical_sector == cd.partition.start + physical_offset
         IN  [sector |-> physical_sector, number |-> factor]

\* cached_sector[s..e] := data
CopyInto(cached_sector, s, data) ==
    [b \in 1 .. Len(cached_sector) |->
        IF b > s /\ b <= s + Len(data) THEN data[b - s] ELSE cached_sector[b]]

\* The loop of reload_sector from iteration i on; physical is the list of
\* the device sectors read so far.
RECURSIVE ReloadLoop(_, _, _, _, _, _)
ReloadLoop(cd, physical_sector, number, i, cached_sector, physical) ==
    IF i >= number
    THEN [err |-> "Ok", cached_sector |-> cached_sector, physical |-> physical]
    ELSE LET s == i * cd.device.sector_size
             r == device_read_sector(cd.device, physical_sector + i)
             seen == Append(physical, physical_sector + i)
         IN  IF r.err # "Ok"
             THEN [err |-> r.err, cached_sector |-> cached_sector, physical |-> seen]
             ELSE ReloadLoop(cd, physical_sector, number, i + 1,
                             CopyInto(cached_sector, s, r.data), seen)

\* A faulty reload_sector: the sector filled so far is inserted when a device
\* read fails.
CachedDevice_reload_sector_Partial(cd, c, sector) ==
    LET vp == virtual_to_physical(cd, sector)
        r == ReloadLoop(cd, vp.sector, vp.number, 0,
                        Zeros(cd.partition.sector_size), <<>>)
    IN  [err |-> r.err, cache |-> (sector :> r.cached_sector) @@ c,
         physical |-> r.physical, loaded |-> r.err = "Ok"]

\* The result carries the cache after the call, the device sectors the call
\* read, and whether an entry was inserted.
CachedDevice_reload_sector(cd, c, sector) ==
    LET vp == virtual_to_physical(cd, sector)
        r == ReloadLoop(cd, vp.sector, vp.number, 0,
                        Zeros(cd.partition.sector_size), <<>>)
    IN  IF r.err # "Ok"
        THEN [err |-> r.err, cache |-> c, physical |-> r.physical, loaded |-> FALSE]
        ELSE [err |-> "Ok", cache |-> (sector :> r.cached_sector) @@ c,
              physical |-> r.physical, loaded |-> TRUE]

\* A faulty ensure_cached: the sector is read again on every use.
CachedDevice_ensure_cached_Always(cd, c, sector) ==
    CachedDevice_reload_sector(cd, c, sector)

CachedDevice_ensure_cached(cd, c, sector) ==
    IF sector \notin DOMAIN c
    THEN CachedDevice_reload_sector(cd, c, sector)
    ELSE [err |-> "Ok", cache |-> c, physical |-> <<>>, loaded |-> FALSE]

\* The outcome of a call on the CachedDevice: buflen is the length of the
\* caller's buffer, data the slice or the bytes returned, device the
\* underlying device after the call.
CdevRet(op, sector, r, data, device) ==
    [op |-> op, sector |-> sector, buflen |-> 0, err |-> r.err, data |-> data,
     cache |-> r.cache, physical |-> r.physical, loaded |-> r.loaded,
     device |-> device]

CachedDevice_get_mut(cd, c, sector) ==
    LET r == CachedDevice_ensure_cached(cd, c, sector)
    IN  CdevRet("get_mut", sector, r,
                IF r.err = "Ok" THEN r.cache[sector] ELSE <<>>, cd.device)

CachedDevice_get(cd, c, sector) ==
    LET r == CachedDevice_ensure_cached(cd, c, sector)
    IN  CdevRet("get", sector, r,
                IF r.err = "Ok" THEN r.cache[sector] ELSE <<>>, cd.device)

CachedDevice_read_sector(cd, c, n, buflen) ==
    LET len == Min(cd.partition.sector_size, buflen)
        g == CachedDevice_get(cd, c, n)
    IN  [g EXCEPT !.op = "read_sector",
                  !.buflen = buflen,
                  !.data = IF g.err = "Ok" THEN SubSeq(g.data, 1, len) ELSE <<>>]

NoLoad == [err |-> "UnexpectedEof", physical |-> <<>>, loaded |-> FALSE]

\* A faulty write_sector: the sector is written through to the device.
CachedDevice_write_sector_Through(cd, c, n, buf) ==
    LET sector_size == cd.partition.sector_size
    IN  IF Len(buf) # sector_size
        THEN [CdevRet("write_sector", n, NoLoad @@ [cache |-> c], <<>>, cd.device)
                EXCEPT !.buflen = Len(buf)]
        ELSE LET g == CachedDevice_get_mut(cd, c, n)
             IN  IF g.err # "Ok"
                 THEN [g EXCEPT !.op = "write_sector", !.buflen = Len(buf)]
                 ELSE [g EXCEPT !.op = "write_sector",
                                !.buflen = Len(buf),
                                !.data = buf,
                                !.cache = [g.cache EXCEPT ![n] = buf],
                                !.device = [cd.device EXCEPT !.writes = @ + 1]]

CachedDevice_write_sector(cd, c, n, buf) ==
    LET sector_size == cd.partition.sector_size
    IN  IF Len(buf) # sector_size
        THEN [CdevRet("write_sector", n, NoLoad @@ [cache |-> c], <<>>, cd.device)
                EXCEPT !.buflen = Len(buf)]
        ELSE LET g == CachedDevice_get_mut(cd, c, n)
             IN  IF g.err # "Ok"
                 THEN [g EXCEPT !.op = "write_sector", !.buflen = Len(buf)]
                 ELSE [g EXCEPT !.op = "write_sector",
                                !.buflen = Len(buf),
                                !.data = buf,
                                !.cache = [g.cache EXCEPT ![n] = buf]]

(***************************************************************************)
(* SpecCache: CachedDevice::new on every pair of sector sizes, then        *)
(* get / get_mut / read_sector / write_sector in any order, while the      *)
(* medium may change once.                                                 *)
(***************************************************************************)
VirtSectors == 0 .. MaxVirt

CdevNoRet == [op |-> "none"]

\* The buffer lengths given to read_sector and write_sector: one short of a
\* logical sector, a logical sector, one more.
SectorBufLens ==
    {cdev.partition.sector_size - 1, cdev.partition.sector_size,
     cdev.partition.sector_size + 1}

InitCache ==
    /\ disk = [fat |-> MakeFat([c \in Clusters |-> Word(EOC_MIN, 0)]), data |-> PatternData]
    /\ cache = <<>>
    /\ chain = ChainIdle
    /\ file = FileIdle
    /\ iter = IterIdle
    /\ fs = FsIdle
    /\ mnt = MntIdle
    /\ call = CallIdle
    /\ sh = SharedNew
    /\ \E size \in 1 .. MaxPhysical, bad \in {1, PhysSectors} :
          cdev = [pc |-> "new",
                  device |-> [sector_size |-> size, sectors |-> PhysSectors,
                              epoch |-> 0, writes |-> 0, bad |-> bad],
                  partition |-> [start |-> 0, sector_size |-> 0],
                  loads |-> [s \in VirtSectors |-> 0],
                  ret |-> CdevNoRet]

New ==
    /\ cdev.pc = "new"
    /\ \E start \in 0 .. 1, sector_size \in 1 .. MaxLogical :
          LET r == CachedDevice_new(cdev.device,
                                    [start |-> start, sector_size |-> sector_size])
          IN  cdev' = [cdev EXCEPT !.pc = IF r.err = "Ok" THEN "ready" ELSE "panicked",
                                   !.partition = r.partition]
    /\ UNCHANGED <<disk, cache, chain, file, iter, fs, mnt, call, sh>>

\* The state after a call that returned r on virtual sector s.
Returned(r, c) ==
    /\ cache' = c
    /\ cdev' = [cdev EXCEPT !.ret = [r EXCEPT !.cache = <<>>],
                            !.device = r.device,
                            !.loads = IF r.loaded
                                      THEN [@ EXCEPT ![r.sector] = @ + 1]
                                      ELSE @]
    /\ UNCHANGED <<disk, chain, file, iter, fs, mnt, call, sh>>

Get ==
    /\ cdev.pc = "ready"
    /\ \E s \in VirtSectors :
          LET r == CachedDevice_get(cdev, cache, s) IN Returned(r, r.cache)

\* get_mut, and the caller filling the slice it returns.
GetMut ==
    /\ cdev.pc = "ready"
    /\ \E s \in VirtSectors :
          LET r == CachedDevice_get_mut(cdev, cache, s)
          IN  Returned(r, IF r.err = "Ok"
                          THEN [r.cache EXCEPT ![s] = [i \in DOMAIN @ |-> MODIFIED]]
                          ELSE r.cache)

ReadSector ==
    /\ cdev.pc = "ready"
    /\ \E s \in VirtSectors, buflen \in SectorBufLens :
          LET r == CachedDevice_read_sector(cdev, cache, s, buflen)
          IN  Returned(r, r.cache)

WriteSector ==
    /\ cdev.pc = "ready"
    /\ \E s \in VirtSectors, buflen \in SectorBufLens :
          LET r == CachedDevice_write_sector(cdev, cache, s,
                                             [i \in 1 .. buflen |-> MODIFIED])
          IN  Returned(r, r.cache)

\* The medium changes under the program: its content is another and its
\* unreadable sector reads again.
DeviceChanges ==
    /\ cdev.pc = "ready"
    /\ cdev.device.epoch = 0
    /\ cdev' = [cdev EXCEPT !.device.epoch = 1]
    /\ UNCHANGED <<disk, cache, chain, file, iter, fs, mnt, call, sh>>

NextCache == New \/ Get \/ GetMut \/ ReadSector \/ WriteSector \/ DeviceChanges

SpecCache == InitCache /\ [][NextCache]_vars

(***************************************************************************)
(* Claims about the cached device.                                         *)
(***************************************************************************)
\* A step in which virtual sector v is read from the device into the cache.
Loads(v) == cdev.pc = "ready" /\ cdev'.loads[v] = cdev.loads[v] + 1

NotScaled(v) ==
    v < cdev.partition.start \/ cdev.device.sector_size = cdev.partition.sector_size

\* The physical sectors the mapping contract gives virtual sector v.
ContractSectors(v) ==
    IF NotScaled(v)
    THEN <<v>>
    ELSE LET factor == cdev.partition.sector_size \div cdev.device.sector_size
         IN  [k \in 1 .. factor |->
                 cdev.partition.start + (v - cdev.partition.start) * factor + k - 1]

Range(f) == { f[x] : x \in DOMAIN f }

\* C11: a virtual sector before partition.start, or any sector when the
\* physical and logical sizes are equal, is read from the single physical
\* sector of the same number; any other one is read from the factor =
\* logical / physical contiguous physical sectors starting at partition.start
\* + (v - partition.start) * factor, the cached logical sector is their
\* concatenation in ascending order, and distinct virtual sectors at or after
\* partition.start are read from disjoint physical ranges.
C11_VirtualToPhysical ==
    [][\A v \in VirtSectors :
          Loads(v) =>
              /\ cdev'.ret.physical = ContractSectors(v)
              /\ (~NotScaled(v) /\ cdev'.ret.op = "get") =>
                    cache'[v] = Flatten([k \in DOMAIN ContractSectors(v) |->
                                    PhysicalSector(cdev.device, ContractSectors(v)[k])])
              /\ \A w \in VirtSectors :
                    (w # v /\ w >= cdev.partition.start /\ v >= cdev.partition.start)
                    => Range(ContractSectors(v)) \cap Range(ContractSectors(w)) = {}
      ]_vars

\* C12: a cached sector stays cached and is never read from the device
\* again; its bytes change only by a get_mut or write_sector on it, and a
\* later get or read_sector returns them, whatever the device holds by then.
C12_LoadedOnceAndKept ==
    [][\A v \in DOMAIN cache :
          /\ v \in DOMAIN cache'
          /\ cdev.loads[v] = 1 /\ cdev'.loads[v] = 1
          /\ cache'[v] # cache[v] =>
                cdev'.ret.op \in {"get_mut", "write_sector"} /\ cdev'.ret.sector = v
          /\ (cdev'.ret.op \in {"get", "read_sector"} /\ cdev'.ret.sector = v) =>
                /\ cdev'.ret.err = "Ok"
                /\ cdev'.ret.data = SubSeq(cache[v], 1, Len(cdev'.ret.data))
                /\ cdev'.ret.op = "get" => cdev'.ret.data = cache[v]
                /\ cdev'.ret # cdev.ret => cdev'.ret.physical = <<>>
      ]_vars

\* The bytes a load of virtual sector v gives for a device in state epoch.
LoadedAt(v, epoch) ==
    LET r == CachedDevice_reload_sector([cdev EXCEPT !.device.epoch = epoch], <<>>, v)
    IN  IF r.err = "Ok" THEN r.cache[v] ELSE <<>>

\* A get answered from the cache after the device has changed: the bytes
\* are those of the first load, not those a new load would give.
C12_Witness ==
    /\ cdev.pc = "ready"
    /\ cdev.ret.op = "get" /\ cdev.ret.err = "Ok" /\ ~cdev.ret.loaded
    /\ cdev.ret.device.epoch = 1
    /\ cdev.ret.sector \in DOMAIN cache
    /\ cdev.ret.data = cache[cdev.ret.sector]
    /\ cdev.ret.data = LoadedAt(cdev.ret.sector, 0)
    /\ cdev.ret.data # LoadedAt(cdev.ret.sector, 1)

IntegerMultiple ==
    /\ cdev.partition.sector_size >= cdev.device.sector_size
    /\ cdev.partition.sector_size % cdev.device.sector_size = 0

\* C14: CachedDevice::new yields a device only when the partition's sector
\* size is at least the device's sector size and an exact integer multiple
\* of it; every other pair of sizes is rejected with a panic.
C14_NewRejectsNonMultiples ==
    /\ cdev.pc = "ready" => IntegerMultiple
    /\ cdev.pc = "panicked" => ~IntegerMultiple

\* C15: no call writes to the underlying device; write_sector with a buffer
\* of the logical sector size changes the cached entry of its sector and
\* nothing else, and with a buffer of any other length it fails and leaves
\* the cache as it was.
C15_WritesStayInCache ==
    [][/\ cdev'.device.writes = 0
       /\ cdev'.pc = "ready" /\ cdev'.ret.op = "write_sector" =>
             LET n == cdev'.ret.sector
             IN  IF cdev'.ret.buflen = cdev.partition.sector_size
                 THEN /\ cdev'.ret.err \in {"Ok", "Io"}
                      /\ cdev'.ret.err = "Ok" =>
                            /\ n \in DOMAIN cache'
                            /\ cache'[n] = [i \in 1 .. cdev.partition.sector_size |-> MODIFIED]
                      /\ cdev'.ret.err = "Io" => cache' = cache
                      /\ \A s \in VirtSectors \ {n} :
                            /\ s \in DOMAIN cache' <=> s \in DOMAIN cache
                            /\ s \in DOMAIN cache => cache'[s] = cache[s]
                 ELSE /\ cdev'.ret.err = "UnexpectedEof"
                      /\ cache' = cache
      ]_vars

\* A write_sector that loaded its sector and replaced it, beside another
\* cached sector that still holds the device's bytes.
C15_Witness ==
    /\ cdev.pc = "ready"
    /\ cdev.ret.op = "write_sector" /\ cdev.ret.err = "Ok" /\ cdev.ret.loaded
    /\ cdev.ret.sector \in DOMAIN cache
    /\ cache[cdev.ret.sector] = [i \in 1 .. cdev.partition.sector_size |-> MODIFIED]
    /\ \E s \in DOMAIN cache : s # cdev.ret.sector /\ cache[s] = LoadedAt(s, 0)
    /\ cdev.device.writes = 0

\* The physical sectors a load of virtual sector v reads, in order.
MappedSectors(v) ==
    LET vp == virtual_to_physical(cdev, v)
    IN  [k \in 1 .. vp.number |-> vp.sector + k - 1]

\* The places in m of the sectors the device cannot read now.
Unreadable(m) == { k \in DOMAIN m : device_read_sector(cdev.device, m[k]).err # "Ok" }

\* A step in which a call comes to virtual sector v while v is not cached.
MissesOn(v) ==
    /\ cdev.pc = "ready"
    /\ cdev'.ret # cdev.ret
    /\ cdev'.ret.sector = v
    /\ v \notin DOMAIN cache
    /\ ~(cdev'.ret.op = "write_sector" /\ cdev'.ret.buflen # cdev.partition.sector_size)

\* C23: when the device fails on one of the physical sectors read on a
\* cache miss for virtual sector v, the call returns the device's error, the
\* cache is left as it was (no entry for v, every other entry unchanged) and
\* each physical sector up to the failing one was read once, none after it;
\* a later access to v, v being still uncached, loads again from the first
\* physical sector, and when every read succeeds the sector it sees is made
\* of the bytes read in that call.
C23_FailedLoadLeavesCache ==
    [][\A v \in VirtSectors :
          MissesOn(v) =>
              LET m == MappedSectors(v)
                  bad == Unreadable(m)
                  k == CHOOSE i \in bad : \A j \in bad : i <= j
              IN  IF bad # {}
                  THEN /\ cdev'.ret.err = device_read_sector(cdev.device, m[k]).err
                       /\ cache' = cache
                       /\ cdev'.ret.physical = SubSeq(m, 1, k)
                       /\ cdev'.loads = cdev.loads
                  ELSE /\ cdev'.ret.err = "Ok"
                       /\ cdev'.ret.physical = m
                       /\ DOMAIN cache' = DOMAIN cache \cup {v}
                       /\ \A s \in DOMAIN cache : cache'[s] = cache[s]
                       /\ cdev'.ret.op \in {"get", "get_mut"}
                            => SubSeq(cdev'.ret.data, 1, Len(m) * cdev.device.sector_size)
                                 = Flatten([i \in DOMAIN m |->
                                              PhysicalSector(cdev.device, m[i])])
      ]_vars

\* A load that failed on its second physical sector, after the first was
\* read, while another sector is cached.
C23_Witness ==
    /\ cdev.pc = "ready"
    /\ cdev.ret.op = "get" /\ cdev.ret.err = "Io"
    /\ cdev.ret.physical = <<0, cdev.device.bad>>
    /\ cdev.device.bad < cdev.device.sectors
    /\ cdev.ret.sector \notin DOMAIN cache
    /\ \E s \in DOMAIN cache : cache[s] = LoadedAt(s, 0)

(***************************************************************************)
(* SpecVFat: one fat_entry or read_cluster call on a volume whose FAT      *)
(* holds an arbitrary word in one entry.                                   *)
(***************************************************************************)
\* The inputs of the calls.  values: the low 28 bits a FAT entry is drawn
\* from, the ends of every class; nibbles: its reserved high nibble;
\* clusters: 0 and 1, the data clusters, the FAT entries past them and the
\* first number past the FAT; offsets and lens: around the sector and
\* cluster boundaries.
CallInputs ==
    [values |-> {FREE, RESERVED_LOW, DATA_MIN, DATA_MIN + 1, DATA_MAX, RESERVED_MIN,
                 BAD - 1, BAD, EOC_MIN, EOC_MAX},
     nibbles |-> {0, 5, 15},
     clusters |-> 0 .. (sectors_per_fat * EntriesPerSector),
     offsets |-> {0, 1, bytes_per_sector - 1, bytes_per_sector, bytes_per_sector + 1,
                  cluster_size - 1},
     lens |-> {0, 1, bytes_per_sector - 1, bytes_per_sector, bytes_per_sector + 1,
               cluster_size - 1, cluster_size, cluster_size + 1}]

InitVFat ==
    /\ \E k \in Clusters, v \in CallInputs.values, hi \in CallInputs.nibbles :
          /\ disk = [fat |-> MakeFat([c \in Clusters |->
                                IF c = k THEN Word(v, hi) ELSE Word(EOC_MIN, 0)]),
                     data |-> PatternData]
          /\ call = [pc |-> "idle", entry |-> k, word |-> [v |-> v, hi |-> hi]]
    /\ cache = <<>>
    /\ chain = ChainIdle
    /\ file = FileIdle
    /\ iter = IterIdle
    /\ fs = FsIdle
    /\ mnt = MntIdle
    /\ cdev = CdevIdle
    /\ sh = SharedNew

FatEntry ==
    /\ call.pc = "idle"
    /\ \E c \in CallInputs.clusters :
          LET r == fat_entry(cache, disk, c)
          IN  /\ call' = [call EXCEPT !.pc = "fat_entry"] @@
                         [cluster |-> c, err |-> r.err, bytes |-> r.bytes,
                          status |-> IF r.err = "Ok" THEN status(r.bytes)
                                     ELSE [kind |-> "none", val |-> 0]]
              /\ cache' = r.cache
    /\ UNCHANGED <<disk, chain, file, iter, fs, mnt, cdev, sh>>

ReadCluster ==
    /\ call.pc = "idle"
    /\ \E c \in CallInputs.clusters, offset \in CallInputs.offsets,
          len \in CallInputs.lens :
          LET r == read_cluster(cache, disk, c, offset, len)
          IN  /\ call' = [call EXCEPT !.pc = "read_cluster"] @@
                         [cluster |-> c, offset |-> offset, len |-> len,
                          err |-> r.err, n |-> r.n, data |-> r.data]
              /\ cache' = r.cache
    /\ UNCHANGED <<disk, chain, file, iter, fs, mnt, cdev, sh>>

NextVFat == FatEntry \/ ReadCluster

SpecVFat == InitVFat /\ [][NextVFat]_vars

\* The classification the FAT32 format gives the 28-bit value w.
StatusOfValue(w) ==
    IF w = 0 THEN [kind |-> "Free", val |-> 0]
    ELSE IF w = 1 THEN [kind |-> "Reserved", val |-> 0]
    ELSE IF w <= 268435439 THEN [kind |-> "Data", val |-> w]
    ELSE IF w <= 268435446 THEN [kind |-> "Reserved", val |-> 0]
    ELSE IF w = 268435447 THEN [kind |-> "Bad", val |-> 0]
    ELSE [kind |-> "Eoc", val |-> w]

\* C13: fat_entry(c) fails with NotFound without fetching any sector when
\* (4 * c) / bytes_per_sector >= sectors_per_fat; otherwise it returns the 4
\* bytes of FAT entry c, at offset (4 * c) mod bytes_per_sector of logical
\* sector fat_start_sector + (4 * c) / bytes_per_sector, the only sector it
\* fetches, and their status is the class of the low 28 bits of the word,
\* whatever the high nibble; the unreachable arm is never taken.
C13_FatEntryAndStatus ==
    call.pc = "fat_entry" =>
        LET c == call.cluster
            nsector == fat_start_sector + (4 * c) \div bytes_per_sector
            at == (4 * c) % bytes_per_sector
        IN  IF (4 * c) \div bytes_per_sector >= sectors_per_fat
            THEN call.err = "NotFound" /\ cache = <<>>
            ELSE /\ call.err = "Ok"
                 /\ call.bytes = SubSeq(DeviceSector(disk, nsector), at + 1, at + 4)
                 /\ call.bytes = disk.fat[c]
                 /\ DOMAIN cache = {nsector}
                 /\ call.status.kind # "unreachable"
                 /\ c = call.entry => call.status = StatusOfValue(call.word.v)

\* fat_entry on the entry that holds the bad-cluster mark under a non-zero
\* high nibble.
C13_Witness ==
    /\ call.pc = "fat_entry"
    /\ call.cluster = call.entry
    /\ call.word = [v |-> BAD, hi |-> 15]
    /\ call.status.kind = "Bad"

\* The data of cluster c as the device holds it.
ClusterSectors(c) ==
    Flatten([j \in 1 .. sectors_per_cluster |->
                DeviceSector(disk, data_start_sector + (c - 2) * sectors_per_cluster + j - 1)])

C18_RootForDotEntries ==
    IsEmitted(iter.item) =>
        LET r == iter.raw[iter.item.at]
            on_disk == r.hi * 65536 + r.lo
        IN  iter.item.first_cluster =
                IF iter.item.name \in {DOT, DOTDOT} /\ on_disk = 0
                THEN root_dir_cluster
                ELSE on_disk

\* C19: a live record is taken for a long-filename record exactly when its
\* attributes byte is 0x0F: in a call of next(), every live record passed
\* over has attributes 0x0F and the record emitted has other attributes, so
\* that a record with attributes 0x1F, 0x2F or 0x3F is emitted.
C19_LfnIsExactly0F ==
    [][\A i \in iter.pos .. (iter'.pos - 1) :
          (i <= Len(iter.raw) /\ LiveRecord(iter.raw[i])) =>
              IF IsEmitted(iter'.item) /\ iter'.item.at = i
              THEN iter.raw[i].attr # LFN_MASK
              ELSE iter.raw[i].attr = LFN_MASK
      ]_vars

\* C20: a call of next() that comes to a long-filename record whose
\* sequence number (low 5 bits) is 0 reports InvalidData and does not abort.
C20_BogusSequenceIsInvalidData ==
    [][LET p == iter'.pos - 1
       IN  (/\ p >= iter.pos
            /\ p <= Len(iter.raw)
            /\ IsLfnRecord(iter.raw[p])
            /\ SeqOf(iter.raw[p]) = 0)
           => iter'.pc # "panicked" /\ iter'.item.kind = "InvalidData"
      ]_vars

\* A regular record: a live record whose attributes are not 0x0F.
IsRegularRecord(r) == LiveRecord(r) /\ r.attr # LFN_MASK

\* The index of the last regular record before p, 0 at the start of the
\* directory.
RECURSIVE PrevRegular(_, _)
PrevRegular(raw, p) ==
    IF p <= 1 THEN 0
    ELSE IF IsRegularRecord(raw[p - 1]) THEN p - 1 ELSE PrevRegular(raw, p - 1)

NoLfnSincePrevRegular(raw, p) ==
    \A i \in (PrevRegular(raw, p) + 1) .. (p - 1) : ~IsLfnRecord(raw[i])

\* The bytes of bs before the first 0x00 or 0x20.
UpToTerminator(bs) ==
    LET stops == { i \in 1 .. Len(bs) : bs[i] \in {0, 32} }
        n == IF stops = {} THEN Len(bs)
             ELSE (CHOOSE i \in stops : \A j \in stops : i <= j) - 1
    IN  SubSeq(bs, 1, n)

ShortNameOnly(r) ==
    from_utf8_lossy(UpToTerminator(r.name))
        \o (IF UpToTerminator(r.ext) = <<>> THEN <<>>
            ELSE <<46>> \o from_utf8_lossy(UpToTerminator(r.ext)))

\* The scratchpad as the records after q and before p fill it, whatever
\* lies at or before q: slot s holds the units of the last of them that is
\* taken as a long-filename record with sequence number s.
PadBetween(raw, q, p) ==
    LET taken(s) == { i \in (q + 1) .. (p - 1) : TakenAsLfn(raw[i]) /\ SeqOf(raw[i]) = s }
        last(s) == CHOOSE i \in taken(s) : \A j \in taken(s) : j <= i
    IN  IF \A s \in 1 .. LfnSlots : taken(s) = {} THEN NoLfn
        ELSE [s \in 1 .. LfnSlots |->
                IF taken(s) = {} THEN Zeros(LfnUnits) ELSE raw[last(s)].chars]

\* The index of the last record before p the iterator emitted, 0 if none.
RECURSIVE PrevEmitted(_, _)
PrevEmitted(raw, p) ==
    IF p <= 1 THEN 0
    ELSE IF LiveRecord(raw[p - 1]) /\ ~TakenAsLfn(raw[p - 1]) THEN p - 1
    ELSE PrevEmitted(raw, p - 1)

\* C21: the scratchpad is empty after an entry is emitted; an emitted
\* regular record with no LFN record between it and the previous regular
\* record (or the start of the directory) is named by its short name only
\* (name up to the first 0x00/0x20, then "." and the extension up to the
\* first 0x00/0x20 if that is non-empty); and the name of an emitted entry
\* holds no code unit collected at or before the previous emitted entry.
C21_ScratchpadClearedOnEmit ==
    IsEmitted(iter.item) =>
        LET p == iter.item.at
        IN  /\ iter.lfn = NoLfn
            /\ (IsRegularRecord(iter.raw[p]) /\ NoLfnSincePrevRegular(iter.raw, p))
                 => iter.item.name = ShortNameOnly(iter.raw[p])
            /\ LET pad == PadBetween(iter.raw, PrevEmitted(iter.raw, p), p)
               IN  iter.item.name =
                       IF pad = NoLfn THEN ShortNameOnly(iter.raw[p])
                       ELSE from_utf16_lossy(LfnNameUnits(pad, 1))

(***************************************************************************)
(* The Shared<VFat> cell and the borrows the operations take on it.  The   *)
(* cell is checked at run time: a borrow of a free cell holds it until the *)
(* guard is dropped, a borrow of a held cell is a borrow-conflict panic.   *)
(* An operation is the list of what it does to the cell and of the calls   *)
(* that can fail in between, one step each.                                *)
(***************************************************************************)
MaxHandles == 2      \* live handles of each kind

borrow_mut(cell) ==
    IF cell.held THEN [cell EXCEPT !.panicked = TRUE] ELSE [cell EXCEPT !.held = TRUE]

borrow(cell) == borrow_mut(cell)

\* The guard goes out of scope.
drop(cell) == [cell EXCEPT !.held = FALSE]

\* A faulty exit: an error return leaves with the guard still alive.
ScopeExit_Leak(cell) == <<>>

\* What is left to do when `?` returns an error: the guards in scope are
\* temporaries or block locals, and are dropped.
ScopeExit(cell) == IF cell.held THEN <<"drop">> ELSE <<>>

\* root_from_vfat (dir.rs:32), entries (dir.rs:168-173), find (dir.rs:145-
\* 155), open with `finds` normal components (vfat.rs:160-205), read
\* (file.rs:98-111), seek and next, which take no borrow.
RECURSIVE Program(_, _)
Program(op, finds) ==
    CASE op = "root_from_vfat" -> <<"borrow", "drop">>
      [] op = "entries" -> <<"borrow_mut", "read_chain", "drop">>
      [] op = "find" -> Program("entries", 0) \o <<"next">>
      [] op = "open" ->
            IF finds = 0
            THEN <<"components">> \o Program("root_from_vfat", 0)
            ELSE Program("open", finds - 1) \o <<"component">> \o Program("find", 0)
      [] op = "read" -> <<"borrow_mut", "read_cluster", "drop", "seek">>
      [] op = "seek" -> <<"seek">>
      [] op = "next" -> <<"next">>

\* The handle an operation is called on.
HandleOf(op) ==
    CASE op \in {"read", "seek"} -> "File"
      [] op \in {"entries", "find"} -> "Dir"
      [] op = "next" -> "Iter"

InitShared ==
    /\ disk = [fat |-> MakeFat([c \in Clusters |-> Word(EOC_MIN, 0)]), data |-> PatternData]
    /\ cache = <<>>
    /\ chain = ChainIdle
    /\ file = FileIdle
    /\ iter = IterIdle
    /\ fs = FsIdle
    /\ mnt = MntIdle
    /\ cdev = CdevIdle
    /\ call = CallIdle
    /\ sh = SharedNew

\* An operation is called: open on the filesystem, any other on a live handle.
Call ==
    /\ sh.op = "none" /\ ~sh.panicked
    /\ \E op \in {"open", "entries", "find", "next", "read", "seek"}, finds \in 0 .. 2 :
          /\ op # "open" => finds = 0 /\ sh.handles[HandleOf(op)] > 0
          /\ sh' = [sh EXCEPT !.op = op, !.todo = Program(op, finds), !.ret = "none"]
    /\ UNCHANGED <<disk, cache, chain, file, iter, fs, mnt, cdev, call>>

\* The operation in progress takes its next step; a call that can fail
\* either goes on or returns an error through the scope's exit.
Step ==
    /\ sh.op # "none" /\ ~sh.panicked /\ sh.todo # <<>>
    /\ LET i == Head(sh.todo)
       IN  \/ /\ i = "borrow"
              /\ sh' = [borrow(sh) EXCEPT !.todo = Tail(sh.todo)]
           \/ /\ i = "borrow_mut"
              /\ sh' = [borrow_mut(sh) EXCEPT !.todo = Tail(sh.todo)]
           \/ /\ i = "drop"
              /\ sh' = [drop(sh) EXCEPT !.todo = Tail(sh.todo)]
           \/ /\ i \notin {"borrow", "borrow_mut", "drop"}
              /\ \/ sh' = [sh EXCEPT !.todo = Tail(sh.todo)]
                 \/ sh' = [sh EXCEPT !.todo = ScopeExit(sh), !.ret = "Err"]
    /\ UNCHANGED <<disk, cache, chain, file, iter, fs, mnt, cdev, call>>

\* The operation returns; an Ok of open, find, next or entries hands a new
\* handle (a clone of the Shared) to the caller.
Return ==
    /\ sh.op # "none" /\ ~sh.panicked /\ sh.todo = <<>>
    /\ \E k \in {"File", "Dir", "Iter"} :
          /\ sh.op = "entries" => k = "Iter"
          /\ sh.op \in {"open", "find", "next"} => k # "Iter"
          /\ sh' = [sh EXCEPT
                      !.op = "none",
                      !.last = sh.op,
                      !.ret = IF sh.ret = "Err" THEN "Err" ELSE "Ok",
                      !.handles[k] =
                          IF /\ sh.ret # "Err"
                             /\ sh.op \in {"open", "find", "next", "entries"}
                             /\ @ < MaxHandles
                          THEN @ + 1 ELSE @]
    /\ UNCHANGED <<disk, cache, chain, file, iter, fs, mnt, cdev, call>>

\* The caller drops a handle.
DropHandle ==
    /\ sh.op = "none" /\ ~sh.panicked
    /\ \E k \in {"File", "Dir", "Iter"} :
          /\ sh.handles[k] > 0
          /\ sh' = [sh EXCEPT !.handles[k] = @ - 1]
    /\ UNCHANGED <<disk, cache, chain, file, iter, fs, mnt, cdev, call>>

NextShared == Call \/ Step \/ Return \/ DropHandle

SpecShared == InitShared /\ [][NextShared]_vars

\* C17: when open, entries, find, next, read or seek has returned, with Ok
\* or with an error, no borrow of the shared cell is outstanding, and no
\* sequence of these operations over the live handles comes to a
\* borrow-conflict panic.
C17_BorrowsAreScoped ==
    /\ ~sh.panicked
    /\ sh.op = "none" => ~sh.held
    /\ (sh.op # "none" /\ sh.todo = <<>>) => ~sh.held

\* A read that failed under its exclusive borrow has returned, with a live
\* handle of every kind.
C17_Witness ==
    /\ sh.op = "none"
    /\ sh.last = "read" /\ sh.ret = "Err"
    /\ \A k \in {"File", "Dir", "Iter"} : sh.handles[k] > 0
    /\ ~sh.held

====
